---- MODULE Spec2Model ----
(***************************************************************************)
(* Model of the crawl coordination core of the search engine back end      *)
(* (backend/crawler_service/crawler.py, backend/crawler_service/api.py,    *)
(* backend/search_api/main.py, backend/shared/utils.py).                   *)
(*                                                                         *)
(* Crawler workers are separate processes that share one KV store.  Every  *)
(* KV command is one atomic step; the code a worker runs between two KV    *)
(* commands or awaits is folded into the step that follows it.             *)
(***************************************************************************)
EXTENDS Integers, Sequences, FiniteSets, TLC

(***************************************************************************)
(* Text.  A string is a tuple of tokens.  The tokens of a netloc are its   *)
(* characters; the tokens of a path are "/" and the names between slashes, *)
(* a known file extension being a token of its own (<<"/","foo",".pdf">>). *)
(***************************************************************************)

\* str.lower() on one token.
Lower(c) ==
    CASE c = "X" -> "x"
      [] c = "Y" -> "y"
      [] c = "A" -> "a"
      [] c = ".PDF" -> ".pdf"
      [] c = "HTTP" -> "http"
      [] c = "HTTPS" -> "https"
      [] c = "FTP" -> "ftp"
      [] OTHER -> c

\* str.lower() on a string.
LowerStr(s) == [i \in 1..Len(s) |-> Lower(s[i])]

\* s.startswith(p)
StartsWith(s, p) == Len(p) <= Len(s) /\ SubSeq(s, 1, Len(p)) = p

\* s.endswith(p)
EndsWith(s, p) == Len(p) <= Len(s) /\ SubSeq(s, Len(s) - Len(p) + 1, Len(s)) = p

\* p in s (substring test)
Contains(s, p) == \E i \in 1..(Len(s) - Len(p) + 1) : SubSeq(s, i, i + Len(p) - 1) = p

\* s.replace(p, <<>>): every non-overlapping occurrence of p, left to right.
RECURSIVE Remove(_, _)
Remove(s, p) ==
    IF Len(s) < Len(p) \/ p = <<>> THEN s
    ELSE IF SubSeq(s, 1, Len(p)) = p
         THEN Remove(SubSeq(s, Len(p) + 1, Len(s)), p)
         ELSE <<Head(s)>> \o Remove(Tail(s), p)

\* s.rstrip('/')
RECURSIVE RStripSlash(_)
RStripSlash(s) ==
    IF s # <<>> /\ s[Len(s)] = "/" THEN RStripSlash(SubSeq(s, 1, Len(s) - 1)) ELSE s

(***************************************************************************)
(* URLs.  A URL string is held as the record of its parts as written:      *)
(* scheme (case as written), netloc, path and fragment.                    *)
(***************************************************************************)

Url(scheme, netloc, path, fragment) ==
    [scheme |-> scheme, netloc |-> netloc, path |-> path, fragment |-> fragment]

\* urllib.parse.urlparse: the scheme comes back lowercased, the rest as written.
urlparse(url) == [url EXCEPT !.scheme = Lower(url.scheme)]

\* urllib.parse.urlunparse
urlunparse(scheme, netloc, path, fragment) == Url(scheme, netloc, path, fragment)

get_domain(url) == urlparse(url).netloc

is_valid_url(url) ==
    /\ urlparse(url).scheme \in {"http", "https"}
    /\ urlparse(url).netloc # <<>>

skip_extensions == {".jpg", ".png", ".pdf", ".zip", ".css", ".js", ".exe"}

_should_skip_url(url) ==
    LET parsed == urlparse(url)
        path_lower == LowerStr(parsed.path)
    IN  \/ parsed.scheme \notin {"http", "https"}
        \/ \E ext \in skip_extensions : EndsWith(path_lower, <<ext>>)
        \/ parsed.fragment # ""

_normalize_url(url) ==
    LET parsed == urlparse(url)
        n0 == parsed.netloc
        n1 == IF Contains(n0, <<":", "8", "0">>) /\ parsed.scheme = "http"
              THEN Remove(n0, <<":", "8", "0">>) ELSE n0
        n2 == IF Contains(n1, <<":", "4", "4", "3">>) /\ parsed.scheme = "https"
              THEN Remove(n1, <<":", "4", "4", "3">>) ELSE n1
        path == IF parsed.path # <<"/">> /\ EndsWith(parsed.path, <<"/">>)
                THEN RStripSlash(parsed.path) ELSE parsed.path
    IN  urlunparse(parsed.scheme, LowerStr(n2), path, "")

\* RobotFileParser.can_fetch for the default entry: a Disallow rule applies to
\* every path that starts with it.
rp_can_fetch(disallow, url) ==
    ~ \E rule \in disallow : StartsWith(urlparse(url).path, rule)

\* A priority that is not held at 0 from below
_calculate_priority_Unclamped(url, depth) ==
    LET parsed == urlparse(url)
        segments == Cardinality({i \in 1..Len(parsed.path) : parsed.path[i] = "/"}) + 1
    IN  20 * depth + segments
        - (IF parsed.path \in {<<>>, <<"/">>} THEN 10 ELSE 0)
        - (IF parsed.scheme = "https" THEN 2 ELSE 0)

\* Priorities are held in units of 0.5, so that they stay integers.
_calculate_priority(url, depth) ==
    LET parsed == urlparse(url)
        \* len(parsed.path.split('/'))
        segments == Cardinality({i \in 1..Len(parsed.path) : parsed.path[i] = "/"}) + 1
        p == 20 * depth + segments
             - (IF parsed.path \in {<<>>, <<"/">>} THEN 10 ELSE 0)
             - (IF parsed.scheme = "https" THEN 2 ELSE 0)
    IN  IF p < 0 THEN 0 ELSE p

(***************************************************************************)
(* The web the crawler runs against: one host, x, whose robots.txt is      *)
(* "User-agent: *" / "Disallow: /private/".                                *)
(***************************************************************************)

ROOT == Url("https", <<"x">>, <<"/">>, "")
PUB  == Url("https", <<"x">>, <<"/", "public", "/", "a">>, "")
PRIV == Url("https", <<"x">>, <<"/", "private", "/", "a">>, "")
PDF  == Url("https", <<"x">>, <<"/", "foo", ".pdf">>, "")
\* HTTPS://X:443/public/a/#frag, a non-canonical spelling of PUB
RAW  == Url("HTTPS", <<"X", ":", "4", "4", "3">>, <<"/", "public", "/", "a", "/">>, "frag")
FTP  == Url("ftp", <<"x">>, <<"/", "a">>, "")
\* a chain of pages, each linking to the next
A0 == Url("https", <<"x">>, <<"/", "a">>, "")
A1 == Url("https", <<"x">>, <<"/", "a", "/", "b">>, "")
A2 == Url("https", <<"x">>, <<"/", "a", "/", "b", "/", "c">>, "")
A3 == Url("https", <<"x">>, <<"/", "a", "/", "b", "/", "c", "/", "d">>, "")
A4 == Url("https", <<"x">>, <<"/", "a", "/", "b", "/", "c", "/", "d", "/", "e">>, "")

\* a page of host x that answers with a redirect to https://y/b
MOVED == Url("https", <<"x">>, <<"/", "moved">>, "")
\* pages of a second host, y, that have no links
YA == Url("https", <<"y">>, <<"/", "a">>, "")
YB == Url("https", <<"y">>, <<"/", "b">>, "")
YPRIV == Url("https", <<"y">>, <<"/", "private", "/", "a">>, "")
\* http://x::8080/ and http://a::8080@x/ (user a, password :8080)
DPORT == Url("http", <<"x", ":", ":", "8", "0", "8", "0">>, <<"/">>, "")
USERPORT == Url("http", <<"a", ":", ":", "8", "0", "8", "0", "@", "x">>, <<"/">>, "")
\* http://x:80 and HTTP://x/a//#frag
PORT80 == Url("http", <<"x", ":", "8", "0">>, <<>>, "")
SLASHES == Url("HTTP", <<"x">>, <<"/", "a", "/", "/">>, "frag")
\* http://x:8080/a and https://X:4430/a/
PORT8080 == Url("http", <<"x", ":", "8", "0", "8", "0">>, <<"/", "a">>, "")
PORT4430 == Url("https", <<"X", ":", "4", "4", "3", "0">>, <<"/", "a", "/">>, "")

AllUrls == {ROOT, PUB, PRIV, PDF, RAW, FTP, A0, A1, A2, A3, A4, YA, YB, YPRIV, MOVED}
\* The URL strings the URL functions are tried on, and the href attributes of
\* the pages link extraction is tried on.
UrlInputs == AllUrls \cup {DPORT, USERPORT, PORT80, SLASHES, PORT8080, PORT4430}
HrefInputs == {ROOT, RAW, PUB, PDF, FTP, DPORT}
Netlocs == {get_domain(u) : u \in AllUrls}

\* The pages and the links the PageRank job may find in the metadata store:
\* any of three pages, and any of these links among them; PRIV is never a page.
RankUrls == {ROOT, PUB, A0}
RankLinks == {<<ROOT, PUB>>, <<PUB, ROOT>>, <<PUB, A0>>, <<A0, A0>>, <<ROOT, A0>>,
              <<ROOT, PRIV>>}

\* The <a href> targets of the page served at url, already joined to the base URL.
Hrefs(url) ==
    CASE url = ROOT -> {Url("https", <<"X">>, <<"/", "public", "/", "a", "/">>, ""), PRIV, PDF}
      [] url = PUB  -> {ROOT}
      [] url = RAW  -> {ROOT}
      [] url = A0   -> {A1}
      [] url = A1   -> {A2}
      [] url = A2   -> {A3}
      [] url = A3   -> {A4}
      [] OTHER      -> {}

\* What the host may answer to GET robots.txt: 200 with the file, another
\* status, or nothing in time.  Host x always answers 200; host y serves the
\* same file but not every time.
RobotsOutcomes(netloc) == IF netloc = <<"y">> THEN {"ok", "non200", "error"} ELSE {"ok"}
RobotsDisallow(netloc) == {<<"/", "private", "/">>}

\* What the host may answer to GET url: an HTML body with a status, a body of
\* another content type, or no answer in time.
HttpOutcomes(url) ==
    CASE url = PUB  -> {"html200", "html404"}
      [] url = A4   -> {"html200", "timeout"}
      [] url \in {PDF, YA, YPRIV} -> {"nonhtml"}
      [] OTHER      -> {"html200"}

\* response.url: where GET url ends after the redirects it follows
response_url(url) == IF url = MOVED THEN YB ELSE url

_extract_links(base_url) ==
    {n \in {_normalize_url(h) : h \in Hrefs(base_url)} :
        is_valid_url(n) /\ ~ _should_skip_url(n)}

\* _extract_links, the list it builds: the hrefs in document order,
\* normalized, but for the invalid and the skipped ones.
extracted(hrefs) ==
    SelectSeq([i \in 1..Len(hrefs) |-> _normalize_url(hrefs[i])],
              LAMBDA n : is_valid_url(n) /\ ~ _should_skip_url(n))

\* list(set(links)): the lists that hold every member of the list once, in
\* any order.
list_set(lst) ==
    LET S == {lst[i] : i \in 1..Len(lst)}
    IN  {s \in [1..Cardinality(S) -> S] : \A x \in S : \E i \in DOMAIN s : s[i] = x}

(***************************************************************************)
(* Bounds and settings.                                                    *)
(***************************************************************************)

\* BLOOM_FILTER_SIZE and BLOOM_HASH_COUNT of the source (10,000,000 and 7),
\* scaled down so that the bitmap can be enumerated.
BLOOM_FILTER_SIZE == 13
BLOOM_HASH_COUNT == 2

\* settings.crawler_max_depth
crawler_max_depth == 3
\* settings.crawler_politeness_delay, in seconds
crawler_politeness_delay == 1
\* RobotsChecker.cache_ttl
cache_ttl == 3600
\* crawl_url's depth argument, which run() leaves at its default
default_depth == 0

\* Indexer.run's batch_size (50 in the source), scaled down
batch_size == 2
\* how many entries are put on queue:indexing, and how far the clock runs,
\* while the indexers are watched
MaxPushed == 3
MaxNow == 2

\* settings.pagerank_iterations (20 in the source), scaled down
pagerank_iterations == 3
\* settings.pagerank_damping, 0.85, as damping_num / damping_den
damping_num == 17
damping_den == 20
\* PageRankComputer.convergence_threshold, 1e-6, as 1 / convergence_inv
convergence_inv == 1000000
\* store_scores' ttl, 7 days
pagerank_ttl == 604800
\* how many PageRank batches are run
MaxJobs == 2
\* settings.cache_ttl, the TTL of a cached search response (3600 s in the
\* source), scaled down so that the clock can pass it
settings_cache_ttl == 2
\* how many search requests are made
MaxSearches == 3
\* how many hits the full-text page given to _apply_pagerank_boost may hold
MaxHits == 3
\* the depths _calculate_priority is tried on: 0..MaxDepthArg
MaxDepthArg == 2
\* the counts pop_batch is called with: 0..MaxCount
MaxCount == 2

\* QueueConfig.max_retries
max_retries == 3
\* how many messages are published to crawled_pages, and how often the
\* broker is watched delivering one message
MaxPublished == 3
MaxDeliveries == 5
\* how many add_document calls are made
MaxAdded == 3
\* how many crawler tasks POST /start may create, and how many pages a
\* crawler started through the API is watched crawling
MaxTasks == 2
MaxTaskPages == 1
\* how many /start and /stop requests are made
MaxRequests == 5

Workers == {"w1", "w2"}
Indexers == {"i1", "i2"}
\* the documents and the texts given to TFIDFCalculator.add_document, each
\* text as its words
DocIds == {"d1", "d2"}
Contents == {<<>>, <<"The", "Cat">>, <<"cats", "dog", "cats">>, <<"dog", "x">>}
\* no document is held under the doc_id
NoDocument == [held |-> FALSE, tokens |-> <<>>]

\* str.lower of a word
lower(word) ==
    CASE word = "The" -> "the"
      [] word = "Cat" -> "cat"
      [] OTHER -> word

\* the English stopwords among the words
stop_words == {"the"}

\* PorterStemmer.stem of a token
stem(token) ==
    CASE token = "cats" -> "cat"
      [] OTHER -> token

\* TextPreprocessor.tokenize on the words of a text: lowercase, drop
\* stopwords, drop tokens shorter than two characters, stem.
tokenize(text) ==
    LET lowered == [k \in 1..Len(text) |-> lower(text[k])]
        kept == SelectSeq(lowered, LAMBDA t : t \notin stop_words /\ t # "x")
    IN  [k \in 1..Len(kept) |-> stem(kept[k])]

\* every term a text may give
Terms == UNION {{tokenize(c)[k] : k \in 1..Len(tokenize(c))} : c \in Contents}
None == "None"
\* the /stop requests that may be in flight together
StopRequests == {"s1", "s2"}
\* the bodies of POST /start: CrawlerConfig
Configs == {[worker_id |-> "crawler-api", max_pages |-> 0],
            [worker_id |-> "crawler-1", max_pages |-> 1]}
\* neither /start nor /stop has answered yet.  Of a response: the handler,
\* the status, its number among the responses, whether crawler_task was a
\* task not done when the handler answered, and the task the handler made
\* or awaited (0: none).
NoResponse == [op |-> None, status |-> 0, n |-> 0, running |-> FALSE, task |-> 0]
NoTest == [done |-> FALSE, hit |-> FALSE, fetch |-> FALSE]
\* self.scores of a PageRankComputer before compute has set it
NoScores == [set |-> FALSE, num |-> [u \in RankUrls |-> 0], den |-> 1]
\* The (q, page, size) the search API is asked for.
SearchArgs == {<<"tla", 1, 1>>, <<"tla", 2, 1>>}
\* search: "search:" + md5(f'{q}:{page}:{size}'); two argument triples have
\* the same key only when they give the same text.
cache_key(q, page, size) == <<"search:", "md5", q, ":", page, ":", size>>
SearchKeys == {cache_key(a[1], a[2], a[3]) : a \in SearchArgs}

\* pop_batch was not called since the last add
NoPop == [done |-> FALSE, count |-> 0, urls |-> <<>>]
\* run() has popped no URL yet
NoUrl == [scheme |-> "", netloc |-> <<>>, path |-> <<>>, fragment |-> ""]
\* BloomFilter.add is not running
NotMarking == [url |-> None, todo |-> <<>>, cleared |-> FALSE]
\* BloomFilter.contains was not called yet
NoAnswer == [url |-> None, marked |-> FALSE, hit |-> FALSE, midway |-> FALSE]
\* no URL function was called yet
NoArg == [url |-> ROOT, depth |-> 0, hrefs |-> <<>>]
NoReturn == [canon |-> <<>>, priority |-> -1, links |-> [done |-> FALSE, list |-> <<>>]]
\* wait_if_needed has neither slept nor written for the URL in hand
NotGated == [slept |-> FALSE, wrote |-> FALSE]
\* no uncached search for the key has returned yet
NoCompleted == [set |-> FALSE, results |-> <<>>, at |-> 0, served |-> 0]
\* no search request was made yet.  Of a request: its cache key, when it came,
\* the last uncached search for its key that had returned by then, how each
\* call it made ended (None: not made), the hits of the full-text store,
\* what _apply_pagerank_boost returned, and the response.
NoRequest == [key |-> None, issued |-> 0, prior |-> NoCompleted,
              cache_get |-> None, es_search |-> None, hits |-> <<>>,
              pagerank_get |-> None, scored |-> <<>>, cache_setex |-> None, log |-> None,
              status |-> 0, cached |-> FALSE, results |-> <<>>]

(***************************************************************************)
(* Bloom filter over the KV bitmap bloom:crawled_urls.                     *)
(***************************************************************************)

TokenCode(c) ==
    CASE c = "/" -> 1 [] c = ":" -> 2 [] c = "x" -> 3 [] c = "X" -> 4
      [] c = "a" -> 5 [] c = "b" -> 6 [] c = "c" -> 7 [] c = "d" -> 8
      [] c = "e" -> 9 [] c = "public" -> 10 [] c = "private" -> 11
      [] c = "foo" -> 12 [] c = ".pdf" -> 14 [] c = "4" -> 15 [] c = "3" -> 16
      [] c = "8" -> 17 [] c = "0" -> 18 [] c = "https" -> 19 [] c = "http" -> 20
      [] c = "HTTPS" -> 21 [] c = "ftp" -> 22 [] c = "frag" -> 23 [] c = "" -> 24
      [] OTHER -> 25

\* The text of a URL, token by token.
UrlText(url) == <<url.scheme>> \o url.netloc \o url.path \o <<url.fragment>>

\* Stands for int(md5(text).hexdigest(), 16): a fixed function of the text.
RECURSIVE Digest(_, _)
Digest(text, h) ==
    IF text = <<>> THEN h
    ELSE Digest(Tail(text), (h * 31 + TokenCode(Head(text))) % 1009)

\* _get_hash_positions, the position the salt i gives
hash_position(url, i) == (Digest(UrlText(url), 7 + i) * (i + 1)) % BLOOM_FILTER_SIZE

_get_hash_positions(url) == {hash_position(url, i) : i \in 0..(BLOOM_HASH_COUNT - 1)}

\* BloomFilter.add, the commands of its pipeline in order: SETBIT key pos 1
\* for each position
setbit_pipeline(url) == [j \in 1..BLOOM_HASH_COUNT |-> hash_position(url, j - 1)]

\* A SETBIT that stores the bitmap anew with only this bit set
SetBit_Store(bits, pos) == {pos}

\* SETBIT key pos 1: the bit is set, the others stay
SetBit(bits, pos) == bits \cup {pos}

\* BloomFilter.contains: all bits set
BloomContainsOp(bits, url) == _get_hash_positions(url) \subseteq bits

\* BloomFilter.add: one pipeline of setbit commands
BloomAddOp(bits, url) == bits \cup _get_hash_positions(url)

(***************************************************************************)
(* Sorted set crawler:frontier, a set of [url, score] with one entry per   *)
(* member.                                                                 *)
(***************************************************************************)

Members(zset) == {e.url : e \in zset}

\* ZADD that leaves an entry the member already has in place
ZAdd_Keep(zset, url, score) == zset \cup {[url |-> url, score |-> score]}

\* ZADD key score member
ZAdd(zset, url, score) ==
    {e \in zset : e.url # url} \cup {[url |-> url, score |-> score]}

\* ZRANGE key 0 0: the entries a range of the lowest rank can return (the
\* order among equal scores is left open).
ZRangeFirst(zset) == {e \in zset : \A f \in zset : e.score <= f.score}

\* ZREM key member
ZRem(zset, url) == {e \in zset : e.url # url}

RECURSIVE TextBefore(_, _)
\* The order of two texts byte by byte, which is how a sorted set orders
\* members of equal score.
TextBefore(s, t) ==
    IF t = <<>> THEN FALSE
    ELSE IF s = <<>> THEN TRUE
    ELSE IF TokenCode(Head(s)) # TokenCode(Head(t)) THEN TokenCode(Head(s)) < TokenCode(Head(t))
    ELSE TextBefore(Tail(s), Tail(t))

\* The entries of a sorted set in rank order: by score, then by member.
Ranked(zset) ==
    LET before(e, f) == \/ e.score < f.score
                        \/ e.score = f.score /\ TextBefore(UrlText(e.url), UrlText(f.url))
    IN  [i \in 1..Cardinality(zset) |->
            CHOOSE e \in zset : Cardinality({f \in zset : before(f, e)}) = i - 1]

\* ZRANGE key start stop, for start >= 0: the entries of ranks start..stop; a
\* negative stop counts from the end, -1 being the last entry.
ZRange(zset, start, stop) ==
    LET n == Cardinality(zset)
        last == IF stop < 0 THEN n + stop ELSE IF stop > n - 1 THEN n - 1 ELSE stop
    IN  SubSeq(Ranked(zset), start + 1, last + 1)

\* URLFrontier.pop by a caller that has the frontier to itself: ZRANGE 0 0,
\* then ZREM of what it returned.
pop(zset) ==
    LET result == ZRange(zset, 0, 0)
    IN  IF result # <<>>
        THEN [found |-> TRUE, url |-> result[1].url, zset |-> ZRem(zset, result[1].url)]
        ELSE [found |-> FALSE, url |-> None, zset |-> zset]

RECURSIVE pops(_, _)
\* n calls of pop, one after the other: the URLs returned, but for the None
\* of an empty frontier, and what is left.
pops(zset, n) ==
    IF n = 0 THEN [urls |-> <<>>, zset |-> zset]
    ELSE LET first == pop(zset)
             later == pops(first.zset, n - 1)
         IN  [urls |-> IF ~ first.found THEN later.urls
                       ELSE <<first.url>> \o later.urls,
              zset |-> later.zset]

\* TTL strings are held as [value, expires]; a key never set expires at 0.
\* GET at time t finds the key when it has not expired.
KVLive(entry, t) == t < entry.expires

\* SETEX key ttl value at time t
KVSetex(ttl, value, t) == [value |-> value, expires |-> t + ttl]

VARIABLES
    frontier,       \* KV sorted set crawler:frontier
    bloom,          \* KV bitmap bloom:crawled_urls: the positions set to 1
    robots,         \* KV strings robots:<domain>
    ratelimit,      \* KV strings ratelimit:<domain>
    queue,          \* KV list queue:indexing
    links,          \* metadata table links
    now,            \* time.time(), in seconds
    pc,             \* where each worker's run() stands
    url,            \* the URL a worker holds
    wake,           \* when a worker's politeness sleep ends
    http_status,    \* the status of the response a worker holds
    zrem_n,         \* what the worker's last ZREM returned
    pages_crawled,  \* WebCrawler.pages_crawled
    errors,         \* WebCrawler.errors
    \* history of what the workers did
    seeded,         \* URLs put on the frontier by a seed entry point
    truedepth,      \* link distance from a seed of each URL ever on the frontier
    passed,         \* per URL, the crawl_url runs that got past the bloom test
    bloom_test,     \* per worker, its last bloom test: done, the answer (hit),
                    \* and whether crawl_url went on to fetch
    gets,           \* URLs a page GET was issued for
    admit,          \* per worker, the robots decision for the URL it holds
    gate,           \* per domain, the last return of wait_if_needed and the
                    \* smallest gap between two returns
    cancel_at       \* per worker, where a cancel hit it

\* The indexer processes, the full-text store and the metadata table pages.
VARIABLES
    es,             \* full-text store: the documents of the index, by _id
    pages,          \* metadata table pages
    ipc,            \* where each indexer's run() stands
    pending,        \* the documents an indexer has built and still handles
    indexed,        \* process_batch's local indexed
    pages_indexed,  \* Indexer.pages_indexed
    indexer_errors, \* Indexer.errors
    pushed          \* how many entries were ever put on queue:indexing

kv == <<frontier, bloom, robots, ratelimit, queue>>
local_but_pc == <<url, wake, http_status, zrem_n, pages_crawled, errors>>
local == <<pc, local_but_pc>>
history == <<seeded, truedepth, passed, bloom_test, gets, admit, gate, cancel_at>>
\* The PageRank job and the reader of its scores.
VARIABLES
    rpc,            \* where run_pagerank_job stands
    gen,            \* how many batches were started
    url_to_idx,     \* PageRankComputer.url_to_idx: the pages of this batch
    adj_matrix,     \* the links <<source, target>> among them
    rank,           \* compute's rank, as numerators over den
    den,
    iteration,      \* how many passes of the loop were made
    converged,      \* whether the last pass ended with diff below the threshold
    scores,         \* PageRankComputer.scores
    pr_kv,          \* KV strings pagerank:<first 16 hex of url_to_hash(u)>, by u
    pr_meta,        \* KV hash pagerank:meta
    pagerank_scores,\* metadata table pagerank_scores
    writes,         \* how many write commands the jobs have issued
    seen            \* per score _apply_pagerank_boost has looked up, its batch

\* The search API's request in hand, its result cache and its query log; the
\* callers of the bloom filter and of the frontier; the arguments and the
\* results of the URL functions.
VARIABLES
    search_cache,   \* KV strings search:<md5 of q:page:size>, by key
    query_logs,     \* metadata table query_logs: how many rows
    searches,       \* how many search requests were handled
    sreq,           \* the last search request: what it met and its response
    completed,      \* per key, the last uncached search that returned: its
                    \* results, when it wrote the cache, and how many
                    \* requests were served from the cache since
    marking,        \* per worker, the URL BloomFilter.add is called for and the
                    \* SETBIT commands of its pipeline still to be applied
    marked,         \* the URLs whose add has completed since the last clear
    answer,         \* the last BloomFilter.contains call and what it returned
    fr_before,      \* the frontier as pop_batch found it
    pop_ret,        \* the last pop_batch call and what it returned
    arg,            \* the url, depth and hrefs the URL functions are called with
    ret,            \* what they returned
    robots_failed,  \* per domain, whether a robots.txt fetch has failed and when
                    \* the value cached for it expires
    admit_after_fail \* per worker, whether its can_fetch call began while such a
                    \* value was cached

ixlocal == <<ipc, pending, indexed, pages_indexed, indexer_errors>>
ixvars == <<es, pages, ixlocal, pushed>>
prvars == <<rpc, gen, url_to_idx, adj_matrix, rank, den, iteration, converged, scores,
            pr_kv, pr_meta, pagerank_scores, writes, seen>>
\* Histories of the rate-limit gate and of the frontier's callers.
VARIABLES
    gated,          \* per worker, whether wait_if_needed has slept and whether
                    \* it has written ratelimit:<domain> for the URL in hand
    held            \* per URL, the priority of its latest push when it was
                    \* pushed and not returned by pop_batch since, else -1

\* The message broker's queues and the TF-IDF calculator of the ranking
\* service.
VARIABLES
    crawled_pages,  \* the broker's queue crawled_pages: its messages, each
                    \* with the number of times it was delivered
    dead_letter,    \* the messages the broker has dead-lettered
    published,      \* how many messages were published
    documents,      \* TFIDFCalculator.documents: doc_id -> tokens
    doc_frequencies,\* InverseDocumentFrequency.doc_frequencies
    total_docs,     \* InverseDocumentFrequency.total_docs
    added,          \* how many add_document calls were made
    crawler_task,   \* crawler API: the global crawler_task, 0 for None
    crawler_instance, \* the global crawler_instance, 0 for None
    tasks,          \* every task create_task has made: its config, whether
                    \* it is done, whether cancel() was called on it, and
                    \* its crawler's pages_crawled
    awaiting,       \* per /stop request in flight, the task it awaits
    api_response,   \* the last response of /start or /stop
    max_pages       \* per worker, the max_pages run() was called with; 0
                    \* stands for None (both are falsy in the loop's test)

svars == <<search_cache, query_logs, searches, sreq, completed>>
mqvars == <<crawled_pages, dead_letter, published>>
tfvars == <<documents, doc_frequencies, total_docs, added>>
apivars == <<crawler_task, crawler_instance, tasks, awaiting, api_response>>
runvars == <<max_pages>>
aside == <<mqvars, tfvars, apivars, runvars>>
blvars == <<marking, marked, answer>>
frvars == <<fr_before, pop_ret>>
fnvars == <<arg, ret>>
rbvars == <<robots_failed, admit_after_fail>>
rtvars == <<gated>>
fhvars == <<held>>
late == <<rtvars, fhvars, aside>>
rest_but_rb == <<ixvars, prvars, svars, blvars, frvars, fnvars, late>>
rest_but_rt == <<ixvars, prvars, svars, blvars, frvars, fnvars, rbvars, fhvars, aside>>
more == <<svars, blvars, frvars, fnvars, rbvars, late>>
world == <<kv, links, now, local, history, ixvars, prvars>>
rest == <<rest_but_rb, rbvars>>
crawler == <<frontier, bloom, robots, ratelimit, links, local, history>>
others == <<kv, links, now, local, history, ixvars, more>>
vars == <<kv, links, now, local, history, rest>>

\* No pagerank:<hash> key is set.
NoPagerank == [u \in RankUrls |-> [value |-> [num |-> 0, den |-> 1, gen |-> 0], expires |-> 0]]

\* The full-text store holds no document and the KV store no PageRank score.
EmptyStores ==
    /\ es = {}
    /\ pr_kv = NoPagerank

\* run() is called without max_pages, as main does by default.
NoLimit == max_pages = [w \in Workers |-> 0]

\* The state after construction, but for the tables links and pages, the
\* full-text store, the PageRank scores of the KV store and the arguments of
\* the URL functions.
InitBut ==
    /\ frontier = {}
    /\ bloom = {}
    /\ robots = [d \in Netlocs |-> [value |-> "", expires |-> 0]]
    /\ ratelimit = [d \in Netlocs |-> [value |-> 0, expires |-> 0]]
    /\ queue = <<>>
    /\ now = 0
    /\ pc = [w \in Workers |-> "run"]
    /\ url = [w \in Workers |-> NoUrl]
    /\ wake = [w \in Workers |-> 0]
    /\ http_status = [w \in Workers |-> 0]
    /\ zrem_n = [w \in Workers |-> 0]
    /\ pages_crawled = [w \in Workers |-> 0]
    /\ errors = [w \in Workers |-> 0]
    /\ seeded = {}
    /\ truedepth = [u \in AllUrls |-> -1]
    /\ passed = [u \in AllUrls |-> 0]
    /\ bloom_test = [w \in Workers |-> NoTest]
    /\ gets = {}
    /\ admit = [w \in Workers |-> None]
    /\ gate = [d \in Netlocs |-> [last |-> -1, gap |-> -1]]
    /\ cancel_at = [w \in Workers |-> None]
    /\ ipc = [i \in Indexers |-> "run"]
    /\ pending = [i \in Indexers |-> <<>>]
    /\ indexed = [i \in Indexers |-> 0]
    /\ pages_indexed = [i \in Indexers |-> 0]
    /\ indexer_errors = [i \in Indexers |-> 0]
    /\ pushed = 0
    /\ rpc = "idle"
    /\ gen = 0
    /\ url_to_idx = {}
    /\ adj_matrix = {}
    /\ rank = [u \in RankUrls |-> 0]
    /\ den = 1
    /\ iteration = 0
    /\ converged = FALSE
    /\ scores = NoScores
    /\ pr_meta = [set |-> FALSE, n_pages |-> 0, gen |-> 0]
    /\ pagerank_scores = {}
    /\ writes = 0
    /\ seen = <<>>
    /\ search_cache = [k \in SearchKeys |-> [value |-> <<>>, expires |-> 0]]
    /\ query_logs = 0
    /\ searches = 0
    /\ sreq = NoRequest
    /\ completed = [k \in SearchKeys |-> NoCompleted]
    /\ marking = [w \in Workers |-> NotMarking]
    /\ marked = {}
    /\ answer = NoAnswer
    /\ fr_before = {}
    /\ pop_ret = NoPop
    /\ ret = NoReturn
    /\ robots_failed = [d \in Netlocs |-> [set |-> FALSE, expires |-> 0]]
    /\ admit_after_fail = [w \in Workers |-> FALSE]
    /\ gated = [w \in Workers |-> NotGated]
    /\ held = [u \in AllUrls |-> -1]
    /\ crawled_pages = <<>>
    /\ dead_letter = <<>>
    /\ published = 0
    /\ documents = [d \in DocIds |-> NoDocument]
    /\ doc_frequencies = [t \in Terms |-> 0]
    /\ total_docs = 0
    /\ added = 0
    /\ crawler_task = 0
    /\ crawler_instance = 0
    /\ tasks = <<>>
    /\ awaiting = [h \in StopRequests |-> 0]
    /\ api_response = NoResponse

Init ==
    /\ InitBut
    /\ NoLimit
    /\ EmptyStores
    /\ links = {}
    /\ pages = {}
    /\ arg = NoArg

(***************************************************************************)
(* WebCrawler.run and crawl_url, one worker process w.                     *)
(***************************************************************************)

\* crawl_url with a seed exemption in its bloom test
AlreadyCrawled_SeedExempt(bits, u) == BloomContainsOp(bits, u) /\ u \notin seeded

\* crawl_url: "if self.bloom_filter.contains(url): return False"
AlreadyCrawled(bits, u) == BloomContainsOp(bits, u)

\* run(): the max_pages test, then frontier.pop()'s ZRANGE.
RunPop(w) ==
    /\ pc[w] = "run"
    /\ IF max_pages[w] # 0 /\ pages_crawled[w] >= max_pages[w]
       THEN pc' = [pc EXCEPT ![w] = "done"] /\ UNCHANGED <<url, bloom_test, admit>>
       ELSE IF ZRangeFirst(frontier) = {}
       THEN pc' = [pc EXCEPT ![w] = "sleep5"] /\ UNCHANGED <<url, bloom_test, admit>>
       ELSE \E e \in ZRangeFirst(frontier) :
                /\ url' = [url EXCEPT ![w] = e.url]
                /\ pc' = [pc EXCEPT ![w] = "zrem"]
                /\ bloom_test' = [bloom_test EXCEPT ![w] = NoTest]
                /\ admit' = [admit EXCEPT ![w] = None]
    /\ UNCHANGED <<rest, kv, links, now, wake, http_status, zrem_n, pages_crawled, errors,
                   seeded, truedepth, passed, gets, gate, cancel_at>>

\* frontier.pop()'s ZREM; pop returns the URL whatever ZREM returned.
PopZRem(w) ==
    /\ pc[w] = "zrem"
    /\ zrem_n' = [zrem_n EXCEPT ![w] = IF url[w] \in Members(frontier) THEN 1 ELSE 0]
    /\ frontier' = ZRem(frontier, url[w])
    /\ pc' = [pc EXCEPT ![w] = "contains"]
    /\ UNCHANGED <<rest, bloom, robots, ratelimit, queue, links, now, url, wake, http_status,
                   pages_crawled, errors, history>>

\* A loop that stops after asyncio.sleep(5) whatever the frontier holds
Sleep5_StopsAnyway(w) ==
    /\ pc[w] = "sleep5"
    /\ pc' = [pc EXCEPT ![w] = "done"]
    /\ UNCHANGED <<rest, kv, links, now, url, wake, http_status, zrem_n, pages_crawled, errors,
                   history>>

\* run(): the frontier was empty; after asyncio.sleep(5), stop if it still is.
Sleep5(w) ==
    /\ pc[w] = "sleep5"
    /\ pc' = [pc EXCEPT ![w] = IF Cardinality(frontier) = 0 THEN "done" ELSE "run"]
    /\ UNCHANGED <<rest, kv, links, now, url, wake, http_status, zrem_n, pages_crawled, errors,
                   history>>

\* crawl_url: the bloom test.
BloomTest(w) ==
    /\ pc[w] = "contains"
    /\ bloom_test' = [bloom_test EXCEPT ![w] =
           [done |-> TRUE, hit |-> BloomContainsOp(bloom, url[w]),
            fetch |-> ~ AlreadyCrawled(bloom, url[w])]]
    /\ IF AlreadyCrawled(bloom, url[w])
       THEN pc' = [pc EXCEPT ![w] = "run"] /\ UNCHANGED passed
       ELSE /\ pc' = [pc EXCEPT ![w] = "add"]
            /\ passed' = [passed EXCEPT ![url[w]] = @ + 1]
    /\ UNCHANGED <<rest, kv, links, now, url, wake, http_status, zrem_n, pages_crawled, errors,
                   seeded, truedepth, gets, admit, gate, cancel_at>>

\* crawl_url: the bloom mark.
BloomMark(w) ==
    /\ pc[w] = "add"
    /\ bloom' = BloomAddOp(bloom, url[w])
    /\ pc' = [pc EXCEPT ![w] = "rate_get"]
    /\ UNCHANGED <<rest, frontier, robots, ratelimit, queue, links, now, url, wake, http_status,
                   zrem_n, pages_crawled, errors, history>>

\* wait_if_needed: read the domain's last crawl time and decide whether to sleep.
RateGet(w) ==
    LET key == ratelimit[get_domain(url[w])]
        last_crawl == key.value
    IN  /\ pc[w] = "rate_get"
        /\ IF KVLive(key, now) /\ now - last_crawl < crawler_politeness_delay
           THEN /\ wake' = [wake EXCEPT ![w] = now + (crawler_politeness_delay - (now - last_crawl))]
                /\ pc' = [pc EXCEPT ![w] = "rate_sleep"]
           ELSE /\ pc' = [pc EXCEPT ![w] = "rate_set"]
                /\ UNCHANGED wake
        /\ gated' = [gated EXCEPT ![w] = NotGated]
        /\ UNCHANGED <<rest_but_rt, kv, links, now, url, http_status, zrem_n, pages_crawled,
                       errors, history>>

\* wait_if_needed: asyncio.sleep(delay - elapsed) is over; the clock stands at
\* the wake-up time or later.
RateSleep(w) ==
    /\ pc[w] = "rate_sleep"
    /\ now' = IF now < wake[w] THEN wake[w] ELSE now
    /\ pc' = [pc EXCEPT ![w] = "rate_set"]
    /\ gated' = [gated EXCEPT ![w].slept = TRUE]
    /\ UNCHANGED <<rest_but_rt, kv, links, url, wake, http_status, zrem_n, pages_crawled,
                   errors, history>>

\* wait_if_needed: write the new last crawl time and return.
RateSet(w) ==
    LET d == get_domain(url[w])
    IN  /\ pc[w] = "rate_set"
        /\ ratelimit' = [ratelimit EXCEPT
               ![d] = KVSetex(crawler_politeness_delay * 2, now, now)]
        /\ gate' = [gate EXCEPT ![d] =
               [last |-> now,
                gap  |-> IF @.last = -1 THEN @.gap
                         ELSE IF @.gap = -1 \/ now - @.last < @.gap
                              THEN now - @.last ELSE @.gap]]
        /\ pc' = [pc EXCEPT ![w] = "robots_get"]
        /\ gated' = [gated EXCEPT ![w].wrote = TRUE]
        /\ UNCHANGED <<rest_but_rt, frontier, bloom, robots, queue, links, now, local_but_pc,
                       seeded, truedepth, passed, bloom_test, gets, admit, cancel_at>>

\* can_fetch: the robots cache lookup.  A cached value answers for the whole
\* domain; on a miss robots.txt is fetched.
RobotsGet(w) ==
    LET key == robots[get_domain(url[w])]
        cached == key.value
    IN  /\ pc[w] = "robots_get"
        /\ IF ~ KVLive(key, now)
           THEN pc' = [pc EXCEPT ![w] = "robots_fetch"] /\ UNCHANGED admit
           ELSE IF cached = "1"
           THEN /\ pc' = [pc EXCEPT ![w] = "http_get"]
                /\ admit' = [admit EXCEPT ![w] = "allow"]
           ELSE /\ pc' = [pc EXCEPT ![w] = "run"]
                /\ admit' = [admit EXCEPT ![w] = "deny"]
        /\ admit_after_fail' = [admit_after_fail EXCEPT ![w] =
               LET failed == robots_failed[get_domain(url[w])]
               IN  failed.set /\ now < failed.expires]
        /\ UNCHANGED <<rest_but_rb, robots_failed, kv, links, now, local_but_pc, seeded,
                       truedepth, passed, bloom_test, gets, gate, cancel_at>>

\* can_fetch: the answer to GET robots.txt has come; decide for this URL and
\* cache the decision under the domain.
RobotsFetch(w) ==
    LET d == get_domain(url[w])
    IN  /\ pc[w] = "robots_fetch"
        /\ \E outcome \in RobotsOutcomes(d) :
             LET can_crawl == IF outcome = "ok"
                              THEN rp_can_fetch(RobotsDisallow(d), url[w])
                              ELSE TRUE   \* non-200, or an exception
             IN  /\ robots' = [robots EXCEPT
                        ![d] = KVSetex(cache_ttl, IF can_crawl THEN "1" ELSE "0", now)]
                 /\ admit' = [admit EXCEPT ![w] = IF can_crawl THEN "allow" ELSE "deny"]
                 /\ pc' = [pc EXCEPT ![w] = IF can_crawl THEN "http_get" ELSE "run"]
                 /\ robots_failed' =
                        IF outcome = "ok" THEN robots_failed
                        ELSE [robots_failed EXCEPT
                                 ![d] = [set |-> TRUE, expires |-> now + cache_ttl]]
        /\ UNCHANGED <<rest_but_rb, admit_after_fail, frontier, bloom, ratelimit, queue, links,
                       now, local_but_pc, seeded, truedepth, passed, bloom_test, gets, gate,
                       cancel_at>>

\* _fetch_page: session.get(url) and what comes back.  The response status
\* is not looked at; only the Content-Type decides whether a page is built.
HttpGet(w) ==
    /\ pc[w] = "http_get"
    /\ gets' = gets \cup {url[w]}
    /\ \E outcome \in HttpOutcomes(url[w]) :
         CASE outcome = "timeout" ->
                /\ errors' = [errors EXCEPT ![w] = @ + 1]
                /\ pc' = [pc EXCEPT ![w] = "run"]
                /\ UNCHANGED http_status
           [] outcome = "nonhtml" ->
                /\ pc' = [pc EXCEPT ![w] = "run"]
                /\ UNCHANGED <<errors, http_status>>
           [] outcome = "html200" ->
                /\ http_status' = [http_status EXCEPT ![w] = 200]
                /\ pc' = [pc EXCEPT ![w] = "publish"]
                /\ UNCHANGED errors
           [] outcome = "html404" ->
                /\ http_status' = [http_status EXCEPT ![w] = 404]
                /\ pc' = [pc EXCEPT ![w] = "publish"]
                /\ UNCHANGED errors
    /\ UNCHANGED <<rest, kv, links, now, url, wake, zrem_n, pages_crawled, seeded, truedepth,
                   passed, bloom_test, admit, gate, cancel_at>>

\* The CrawledPage a worker holds after a fetch: url is the final URL after
\* redirects, domain the domain of the URL asked for.
Page(w) ==
    [url |-> response_url(url[w]), worker_id |-> w, http_status |-> http_status[w],
     domain |-> get_domain(url[w])]

\* _publish_to_queue: RPUSH queue:indexing
Publish(w) ==
    /\ pc[w] = "publish"
    /\ queue' = Append(queue, Page(w))
    /\ pc' = [pc EXCEPT ![w] = "save_links"]
    /\ UNCHANGED <<rest, frontier, bloom, robots, ratelimit, links, now, local_but_pc, history>>

\* _save_links: INSERT ... ON CONFLICT DO NOTHING for each link of the page
SaveLinks(w) ==
    /\ pc[w] = "save_links"
    /\ links' = links \cup {<<Page(w).url, t>> : t \in _extract_links(Page(w).url)}
    /\ pc' = [pc EXCEPT ![w] = "enqueue"]
    /\ UNCHANGED <<rest, kv, now, local_but_pc, history>>

\* frontier.add_many: one ZADD with a mapping
RECURSIVE add_many(_, _, _)
add_many(zset, new_urls, depth) ==
    IF new_urls = {} THEN zset
    ELSE LET u == CHOOSE x \in new_urls : TRUE
         IN  add_many(ZAdd(zset, u, _calculate_priority(u, depth)), new_urls \ {u}, depth)

\* crawl_url: the links not yet in the bloom filter go to the frontier when
\* depth < max_depth; then the page counts as crawled.
EnqueueLinks(w) ==
    LET depth == default_depth
        new_urls == IF depth < crawler_max_depth
                    THEN {l \in _extract_links(Page(w).url) : ~ BloomContainsOp(bloom, l)}
                    ELSE {}
    IN  /\ pc[w] = "enqueue"
        /\ frontier' = add_many(frontier, new_urls, depth + 1)
        /\ truedepth' = [u \in AllUrls |->
               IF u \in new_urls /\ (truedepth[u] = -1 \/ truedepth[u] > truedepth[url[w]] + 1)
               THEN truedepth[url[w]] + 1 ELSE truedepth[u]]
        /\ pages_crawled' = [pages_crawled EXCEPT ![w] = @ + 1]
        /\ pc' = [pc EXCEPT ![w] = "run"]
        /\ UNCHANGED <<rest, bloom, robots, ratelimit, queue, links, now, url, wake, http_status,
                       zrem_n, errors, seeded, passed, bloom_test, gets, admit, gate,
                       cancel_at>>

(***************************************************************************)
(* Seed entry points.                                                      *)
(***************************************************************************)

\* One ZADD at priority 0 for each URL of a list.
RECURSIVE ZAddAll(_, _)
ZAddAll(zset, urls) ==
    IF urls = <<>> THEN zset ELSE ZAddAll(ZAdd(zset, Head(urls), 0), Tail(urls))

Range(seq) == {seq[i] : i \in 1..Len(seq)}

SeedEffect(inserted) ==
    /\ frontier' = ZAddAll(frontier, inserted)
    /\ seeded' = seeded \cup Range(inserted)
    /\ truedepth' = [u \in AllUrls |-> IF u \in Range(inserted) THEN 0 ELSE truedepth[u]]
    /\ UNCHANGED <<rest, bloom, robots, ratelimit, queue, links, now, local, passed, bloom_test,
                   gets, admit, gate, cancel_at>>

\* WebCrawler.seed(urls): normalize, keep the valid ones
seed(urls) ==
    LET normalized == [i \in 1..Len(urls) |-> _normalize_url(urls[i])]
    IN  SeedEffect(SelectSeq(normalized, is_valid_url))

\* crawler API POST /seed: the URLs go in as given
seed_urls(urls) == SeedEffect(urls)

\* search API POST /crawl: 400 when the list is empty, else the URLs go in as given
trigger_crawl(urls) ==
    /\ urls # <<>>
    /\ SeedEffect(urls)

(***************************************************************************)
(* Cancel.                                                                 *)
(***************************************************************************)

\* Where run() is suspended in an await: the politeness sleep, the robots
\* GET, the page GET and the empty-frontier sleep.  KV and database calls
\* are blocking calls, not awaits.
AwaitPoints == {"rate_sleep", "robots_fetch", "http_get", "sleep5"}

\* A stop that lets run() go on from where it is
Cancelled_GoesOn(at) == at

\* What task.cancel() does to a run() suspended at pc: CancelledError is
\* raised at the await and, being a BaseException and no Exception (Python
\* 3.8 and later), passes every handler of can_fetch and _fetch_page.
Cancelled(at) == "cancelled"

\* crawler API POST /stop
stop_crawler(w) ==
    /\ pc[w] \in AwaitPoints
    /\ cancel_at' = [cancel_at EXCEPT ![w] = pc[w]]
    /\ pc' = [pc EXCEPT ![w] = Cancelled(pc[w])]
    /\ UNCHANGED <<rest, kv, links, now, local_but_pc, seeded, truedepth, passed, bloom_test,
                   gets, admit, gate>>

Worker(w) ==
    \/ RunPop(w) \/ PopZRem(w) \/ Sleep5(w)
    \/ BloomTest(w) \/ BloomMark(w)
    \/ RateGet(w) \/ RateSleep(w) \/ RateSet(w)
    \/ RobotsGet(w) \/ RobotsFetch(w)
    \/ HttpGet(w) \/ Publish(w) \/ SaveLinks(w) \/ EnqueueLinks(w)

(***************************************************************************)
(* The indexer: Indexer.run, process_one and process_batch of one indexer  *)
(* process i, the full-text store and the metadata table pages.            *)
(***************************************************************************)

\* An entry of queue:indexing that is no JSON text.
NotJson == [text |-> "<html>"]

\* CrawledPage.to_json then json.loads: the dict the indexer gets from an
\* entry the crawler wrote at time t, with the fields the indexer reads.
CrawledPage(u, t) == [url |-> u, domain |-> get_domain(u), crawled_at |-> t]

\* _parse_crawled_page returns None for this entry
JSONDecodeError(data) == data = NotJson

\* url_to_hash: the SHA-256 of the URL text as it stands; two texts have the
\* same hash only when they are the same text.
url_to_hash(u) == <<"sha256", UrlText(u)>>

\* _create_document at time t
_create_document(page_data, t) ==
    [_id        |-> url_to_hash(page_data.url),
     url        |-> page_data.url,
     domain     |-> page_data.domain,
     crawled_at |-> IF "crawled_at" \in DOMAIN page_data THEN page_data.crawled_at ELSE t,
     indexed_at |-> t]

\* es.index(index, id, document): the document takes the place of the one
\* that has its id
es_index(store, doc) == {d \in store : d._id # doc._id} \cup {doc}

RECURSIVE es_bulk(_, _, _)
\* es.bulk: the index actions in order, but for the items that fail
es_bulk(store, docs, failed) ==
    IF docs = <<>> THEN store
    ELSE LET before == es_bulk(store, SubSeq(docs, 1, Len(docs) - 1), failed)
         IN  IF Len(docs) \in failed THEN before ELSE es_index(before, docs[Len(docs)])

\* An upsert that overwrites crawled_at as well
Upsert_AllColumns(rows, doc) ==
    {r \in rows : r.id # doc._id} \cup
    {[id |-> doc._id, url |-> doc.url, crawled_at |-> doc.crawled_at,
      indexed_at |-> doc.indexed_at, status |-> "indexed"]}

\* save_metadata's statement: INSERT INTO pages ... ON CONFLICT (id) DO UPDATE
\* SET indexed_at = EXCLUDED.indexed_at, status = 'indexed'
Upsert(rows, doc) ==
    IF \E r \in rows : r.id = doc._id
    THEN {IF r.id = doc._id
          THEN [r EXCEPT !.indexed_at = doc.indexed_at, !.status = "indexed"]
          ELSE r : r \in rows}
    ELSE rows \cup {[id |-> doc._id, url |-> doc.url, crawled_at |-> doc.crawled_at,
                     indexed_at |-> doc.indexed_at, status |-> "indexed"]}

\* A loop that in batch mode waits for a whole batch
run_WholeBatches(i, batch_mode) ==
    LET queue_size == Len(queue)
    IN  /\ ipc[i] = "run"
        /\ queue_size # 0
        /\ ipc' = [ipc EXCEPT ![i] = IF ~ batch_mode THEN "process_one"
                                     ELSE IF queue_size >= batch_size
                                          THEN "process_batch" ELSE "run"]
        /\ UNCHANGED <<queue, now, crawler, prvars, more, es, pages, pending, indexed, pages_indexed,
                       indexer_errors, pushed>>

\* run(batch_mode): LLEN, then process_batch when batch_mode and the queue
\* holds a batch, else process_one; an empty queue is waited on.
run(i, batch_mode) ==
    LET queue_size == Len(queue)
    IN  /\ ipc[i] = "run"
        /\ queue_size # 0
        /\ ipc' = [ipc EXCEPT ![i] = IF batch_mode /\ queue_size >= batch_size
                                     THEN "process_batch" ELSE "process_one"]
        /\ UNCHANGED <<queue, now, crawler, prvars, more, es, pages, pending, indexed, pages_indexed,
                       indexer_errors, pushed>>

\* process_one up to the document: BLPOP, decode, _create_document.
process_one(i) ==
    /\ ipc[i] = "process_one"
    /\ IF queue = <<>>
       THEN \* BLPOP timed out
            /\ ipc' = [ipc EXCEPT ![i] = "run"]
            /\ UNCHANGED <<queue, pending, indexer_errors>>
       ELSE /\ queue' = Tail(queue)
            /\ IF JSONDecodeError(Head(queue))
               THEN /\ indexer_errors' = [indexer_errors EXCEPT ![i] = @ + 1]
                    /\ ipc' = [ipc EXCEPT ![i] = "run"]
                    /\ UNCHANGED pending
               ELSE /\ pending' = [pending EXCEPT
                           ![i] = <<_create_document(Head(queue), now)>>]
                    /\ ipc' = [ipc EXCEPT ![i] = "index_document"]
                    /\ UNCHANGED indexer_errors
    /\ UNCHANGED <<now, crawler, prvars, more, es, pages, indexed,
                   pages_indexed, pushed>>

\* process_one: index_document; on failure the record counts as an error.
index_document(i) ==
    /\ ipc[i] = "index_document"
    /\ \/ /\ es' = es_index(es, pending[i][1])
          /\ ipc' = [ipc EXCEPT ![i] = "save_metadata"]
          /\ indexed' = [indexed EXCEPT ![i] = 1]
          /\ UNCHANGED <<pending, indexer_errors>>
       \/ \* es.index raised
          /\ indexer_errors' = [indexer_errors EXCEPT ![i] = @ + 1]
          /\ pending' = [pending EXCEPT ![i] = <<>>]
          /\ ipc' = [ipc EXCEPT ![i] = "run"]
          /\ UNCHANGED <<es, indexed>>
    /\ UNCHANGED <<queue, now, crawler, prvars, more, pages, pages_indexed, pushed>>

\* process_batch up to the documents: a pipeline of batch_size LPOPs, then
\* decode and _create_document for the entries that decode.
process_batch(i) ==
    LET n == IF Len(queue) < batch_size THEN Len(queue) ELSE batch_size
        pages_data == SubSeq(queue, 1, n)
        decoded == SelectSeq(pages_data, LAMBDA data : ~ JSONDecodeError(data))
        docs == [k \in 1..Len(decoded) |-> _create_document(decoded[k], now)]
    IN  /\ ipc[i] = "process_batch"
        /\ queue' = SubSeq(queue, n + 1, Len(queue))
        /\ IF pages_data = <<>>
           THEN ipc' = [ipc EXCEPT ![i] = "run"] /\ UNCHANGED pending
           ELSE /\ pending' = [pending EXCEPT ![i] = docs]
                /\ ipc' = [ipc EXCEPT ![i] = "index_bulk"]
        /\ UNCHANGED <<now, crawler, prvars, more, es, pages, indexed,
                       pages_indexed, indexer_errors, pushed>>

\* process_batch: index_bulk.  Some items may fail; an exception of the
\* request indexes nothing.
index_bulk(i) ==
    /\ ipc[i] = "index_bulk"
    /\ \E failed \in SUBSET (1..Len(pending[i])) :
         /\ es' = es_bulk(es, pending[i], failed)
         /\ indexed' = [indexed EXCEPT ![i] = Len(pending[i]) - Cardinality(failed)]
    /\ ipc' = [ipc EXCEPT ![i] = "save_metadata"]
    /\ UNCHANGED <<queue, now, crawler, prvars, more, pages, pending, pages_indexed, indexer_errors, pushed>>

\* save_metadata for the next document in hand; a failure of the statement
\* is printed and nothing else.  After the last one the indexed documents
\* are counted.
save_metadata(i) ==
    /\ ipc[i] = "save_metadata"
    /\ IF pending[i] = <<>>
       THEN /\ pages_indexed' = [pages_indexed EXCEPT ![i] = @ + indexed[i]]
            /\ ipc' = [ipc EXCEPT ![i] = "run"]
            /\ UNCHANGED <<pages, pending>>
       ELSE /\ \/ pages' = Upsert(pages, Head(pending[i]))
               \/ UNCHANGED pages
            /\ pending' = [pending EXCEPT ![i] = Tail(@)]
            /\ UNCHANGED <<pages_indexed, ipc>>
    /\ UNCHANGED <<queue, now, crawler, prvars, more, es, indexed, indexer_errors, pushed>>

\* search API POST /crawl-index, one URL of the request: fetch it and index the
\* page straight into the full-text store.  Only a 200 text/html answer is
\* indexed (no redirects: the final URL is the URL asked for).
fetch_and_index_url(u) ==
    /\ is_valid_url(u)
    /\ \E outcome \in HttpOutcomes(u) :
         IF outcome = "html200"
         THEN es' = es_index(es, [_id |-> url_to_hash(u), url |-> u,
                                  domain |-> get_domain(u),
                                  crawled_at |-> now, indexed_at |-> now])
         ELSE UNCHANGED es
    /\ UNCHANGED <<queue, now, crawler, prvars, more, pages, ixlocal, pushed>>

\* An entry arrives at the tail of queue:indexing (RPUSH): a page of the
\* crawler, under either spelling of its URL, or a text that is no JSON.
rpush(data) ==
    /\ pushed < MaxPushed
    /\ queue' = Append(queue, data)
    /\ pushed' = pushed + 1
    /\ UNCHANGED <<now, crawler, prvars, more, es, pages, ixlocal>>

\* datetime.utcnow() moves on.
Tick ==
    /\ now < MaxNow
    /\ now' = now + 1
    /\ UNCHANGED <<kv, crawler, ixvars, prvars, more>>

(***************************************************************************)
(* The PageRank batch job, run_pagerank_job, and the reader of its scores. *)
(* Ranks are held exactly, as integer numerators over a common             *)
(* denominator; the rounding of the source's float32 arrays is left out.   *)
(***************************************************************************)

RECURSIVE SumOver(_, _)
\* f summed over the set S
SumOver(f, S) ==
    IF S = {} THEN 0
    ELSE LET x == CHOOSE y \in S : TRUE IN f[x] + SumOver(f, S \ {x})

RECURSIVE Gcd(_, _)
Gcd(a, b) == IF b = 0 THEN a ELSE Gcd(b, a % b)

RECURSIVE LcmOver(_, _)
\* the least common multiple of f over S
LcmOver(f, S) ==
    IF S = {} THEN 1
    ELSE LET x == CHOOSE y \in S : TRUE
             m == LcmOver(f, S \ {x})
         IN  (m * f[x]) \div Gcd(m, f[x])

Abs(x) == IF x < 0 THEN -x ELSE x

\* load_graph, first query: SELECT DISTINCT url FROM pages
load_pages(rows) == {r.url : r \in rows}

\* load_graph, second query: the links with both ends in pages
load_links(lk, urls) == {l \in lk : l[1] \in urls /\ l[2] \in urls}

\* compute: the column sums of the adjacency matrix, with 0 replaced by 1
out_degree(adj, urls) ==
    [v \in urls |-> LET k == Cardinality({l \in adj : l[1] = v})
                    IN  IF k = 0 THEN 1 ELSE k]

\* compute: np.where(out_degree == 0)
dangling_nodes(adj, urls) == {v \in urls : ~ \E l \in adj : l[1] = v}

\* An update that lets the rank of the dangling nodes go
dangling_sum_Dropped(adj, urls, prev_rank) == 0

\* compute: prev_rank[dangling_nodes].sum(), as a numerator
dangling_sum(adj, urls, prev_rank) == SumOver(prev_rank, dangling_nodes(adj, urls))

\* One update multiplies the common denominator by this.
Scale(adj, urls) ==
    damping_den * Cardinality(urls) * LcmOver(out_degree(adj, urls), urls)

\* compute, one pass of the loop body: damping * M.dot(rank), plus the
\* dangling share, plus teleport; prev_rank holds numerators over prev_den,
\* the result numerators over prev_den * Scale.
Update(adj, urls, prev_rank, prev_den) ==
    LET n == Cardinality(urls)
        deg == out_degree(adj, urls)
        K == LcmOver(deg, urls)
        flow == [v \in urls |-> (K \div deg[v]) * prev_rank[v]]
    IN  [u \in RankUrls |->
            IF u \notin urls THEN 0
            ELSE damping_num * n * SumOver(flow, {v \in urls : <<v, u>> \in adj})
                 + damping_num * K * dangling_sum(adj, urls, prev_rank)
                 + (damping_den - damping_num) * K * prev_den]

\* compute: np.abs(rank - prev_rank).sum(), as a numerator over the new
\* denominator
Diff(adj, urls, prev_rank, new_rank) ==
    SumOver([u \in urls |-> Abs(new_rank[u] - prev_rank[u] * Scale(adj, urls))], urls)

\* compute: diff < self.convergence_threshold, for diff = d / total
BelowThreshold(d, total) == d < (total + convergence_inv - 1) \div convergence_inv

\* A loop that makes one pass too many
LoopGoesOn_OneMore(k, conv) == k <= pagerank_iterations /\ ~ conv

\* compute: "for iteration in range(self.iterations)" and its break
LoopGoesOn(k, conv) == k < pagerank_iterations /\ ~ conv

\* Scores scaled to a largest score of 1
Normalize_ByMax(r, urls) ==
    [num |-> r, den |-> CHOOSE m \in {r[u] : u \in urls} : \A u \in urls : r[u] <= m]

\* compute: rank / rank.sum()
Normalize(r, urls) == [num |-> r, den |-> SumOver(r, urls)]

\* A job that goes on to the store phase whatever compute returned
HasScores_Always(k) == TRUE

\* run_pagerank_job: "if len(scores) > 0"
HasScores(k) == k > 0

\* What _apply_pagerank_boost looks up: the hits of one page of results.
Results == <<ROOT, PUB>>

\* run_pagerank_job starts: a new PageRankComputer.
run_pagerank_job ==
    /\ rpc \in {"idle", "done"}
    /\ gen < MaxJobs
    /\ gen' = gen + 1
    /\ rpc' = "load_graph"
    /\ url_to_idx' = {}
    /\ adj_matrix' = {}
    /\ rank' = [u \in RankUrls |-> 0]
    /\ den' = 1
    /\ iteration' = 0
    /\ converged' = FALSE
    /\ scores' = NoScores
    /\ UNCHANGED <<others, pr_kv, pr_meta, pagerank_scores, writes, seen>>

\* compute up to the loop: load_graph; with no pages compute returns an empty
\* array and leaves self.scores unset, else rank starts uniform.
load_graph ==
    LET urls == load_pages(pages)
        n == Cardinality(urls)
    IN  /\ rpc = "load_graph"
        /\ url_to_idx' = urls
        /\ IF n = 0
           THEN /\ rpc' = IF HasScores(0) THEN "store_scores" ELSE "done"
                /\ UNCHANGED <<adj_matrix, rank, den>>
           ELSE /\ adj_matrix' = load_links(links, urls)
                /\ rank' = [u \in RankUrls |-> IF u \in urls THEN 1 ELSE 0]
                /\ den' = n
                /\ rpc' = "iterate"
        /\ UNCHANGED <<others, gen, iteration, converged, scores, pr_kv, pr_meta,
                       pagerank_scores, writes, seen>>

\* compute: one pass of the power iteration.
power_iteration ==
    LET new_rank == Update(adj_matrix, url_to_idx, rank, den)
        new_den == den * Scale(adj_matrix, url_to_idx)
    IN  /\ rpc = "iterate"
        /\ LoopGoesOn(iteration, converged)
        /\ rank' = new_rank
        /\ den' = new_den
        /\ iteration' = iteration + 1
        /\ converged' = BelowThreshold(Diff(adj_matrix, url_to_idx, rank, new_rank), new_den)
        /\ UNCHANGED <<others, gen, rpc, url_to_idx, adj_matrix, scores, pr_kv, pr_meta,
                       pagerank_scores, writes, seen>>

\* compute after the loop: normalize, set self.scores and return them.
compute_returns ==
    /\ rpc = "iterate"
    /\ ~ LoopGoesOn(iteration, converged)
    /\ scores' = [set |-> TRUE,
                  num |-> Normalize(rank, url_to_idx).num,
                  den |-> Normalize(rank, url_to_idx).den]
    /\ rpc' = IF HasScores(Cardinality(url_to_idx)) THEN "store_scores" ELSE "done"
    /\ UNCHANGED <<others, gen, url_to_idx, adj_matrix, rank, den, iteration, converged,
                   pr_kv, pr_meta, pagerank_scores, writes, seen>>

\* store_scores: nothing when self.scores is None, else one pipeline of SETEX,
\* a key for each page of this batch.
store_scores ==
    /\ rpc = "store_scores"
    /\ IF ~ scores.set
       THEN /\ rpc' = "store_to_postgres"
            /\ UNCHANGED <<pr_kv, writes>>
       ELSE /\ pr_kv' = [u \in RankUrls |->
                   IF u \in url_to_idx
                   THEN KVSetex(pagerank_ttl,
                                [num |-> scores.num[u], den |-> scores.den, gen |-> gen], now)
                   ELSE pr_kv[u]]
            /\ writes' = writes + 1
            /\ rpc' = "hset"
    /\ UNCHANGED <<others, gen, url_to_idx, adj_matrix, rank, den, iteration, converged,
                   scores, pr_meta, pagerank_scores, seen>>

\* store_scores: HSET pagerank:meta
store_scores_meta ==
    /\ rpc = "hset"
    /\ pr_meta' = [set |-> TRUE, n_pages |-> Cardinality(url_to_idx), gen |-> gen]
    /\ writes' = writes + 1
    /\ rpc' = "store_to_postgres"
    /\ UNCHANGED <<others, gen, url_to_idx, adj_matrix, rank, den, iteration, converged,
                   scores, pr_kv, pagerank_scores, seen>>

\* store_to_postgres: nothing when self.scores is None, else TRUNCATE and the
\* INSERTs, committed as one transaction.
store_to_postgres ==
    /\ rpc = "store_to_postgres"
    /\ IF ~ scores.set
       THEN UNCHANGED <<pagerank_scores, writes>>
       ELSE /\ pagerank_scores' =
                   {[url_hash |-> url_to_hash(u), url |-> u,
                     score |-> [num |-> scores.num[u], den |-> scores.den], gen |-> gen] :
                        u \in url_to_idx}
            /\ writes' = writes + 1
    /\ rpc' = "done"
    /\ UNCHANGED <<others, gen, url_to_idx, adj_matrix, rank, den, iteration, converged,
                   scores, pr_kv, pr_meta, seen>>

\* _apply_pagerank_boost: the GET of pagerank:<hash> for the next hit; seen
\* keeps the batch each score it found came from, 0 when the key is missing.
_apply_pagerank_boost ==
    /\ Len(seen) < Len(Results)
    /\ LET key == pr_kv[Results[Len(seen) + 1]]
       IN  seen' = Append(seen, IF KVLive(key, now) THEN key.value.gen ELSE 0)
    /\ UNCHANGED <<others, gen, rpc, url_to_idx, adj_matrix, rank, den, iteration,
                   converged, scores, pr_kv, pr_meta, pagerank_scores, writes>>

(***************************************************************************)
(* The search API, GET /search.  The handler awaits nothing that suspends  *)
(* it and the API runs as one process, so requests are handled one at a    *)
(* time; a request is one step.  Scores are held exactly, as rationals;    *)
(* the rounding of the source's floats is left out.                        *)
(***************************************************************************)

\* A score: num / den, with den > 0.
Rat(n, d) == [num |-> n, den |-> d]
RatLess(a, b) == a.num * b.den < b.num * a.den

\* The _score values the full-text store gives to hits.
EsScores == {Rat(1, 1), Rat(9, 10)}

\* es.search: the hits of the page asked for, at most size of them, each a
\* document of the index once, by _score descending.  Which documents match
\* and how they score is the engine's matter: any such page may come back.
es_search(store, size) ==
    UNION {{[i \in 1..k |-> [url |-> g[i][1].url, score |-> g[i][2]]] :
               g \in {h \in [1..k -> store \X EsScores] :
                         /\ \A i, j \in 1..k : i # j => h[i][1] # h[j][1]
                         /\ \A i, j \in 1..k : i < j => ~ RatLess(h[i][2], h[j][2])}} :
           k \in 0..size}

\* A call on the KV store returns or raises (the store cannot be reached);
\* so does the INSERT of _log_query.
CallOutcomes == {"ok", "raises"}

\* search: cache.get(cache_key) with the expiry of the key left out
cached_result_Stale(store, key, t) ==
    [found |-> store[key].expires > 0, value |-> store[key].value]

\* search: cache.get(cache_key), found unless the key is missing or has
\* expired
cached_result(store, key, t) == [found |-> KVLive(store[key], t), value |-> store[key].value]

\* json.dumps of a response and json.loads of the text
json_dumps(response) == <<"json", response>>
json_loads(text) == text[2]

\* _apply_pagerank_boost, "if pagerank:" with a score of 0 taken as none
pagerank_NonZero(store, u, t) ==
    [found |-> KVLive(store[u], t) /\ store[u].value.num # 0, value |-> store[u].value]

\* _apply_pagerank_boost: cache.get(pr_key), found unless the key is missing;
\* what is stored is the text of a float, which is never empty
pagerank(store, u, t) == [found |-> KVLive(store[u], t), value |-> store[u].value]

\* 0.7 * result["score"] + 0.3 * pagerank * 100
Boosted(score, pr) ==
    Rat(7 * score.num * pr.den + 300 * pr.num * score.den, 10 * score.den * pr.den)

RECURSIVE sort_reverse(_)
\* results.sort(key=score, reverse=True): by score descending, equal scores
\* in the order they had
sort_reverse(results) ==
    IF Len(results) <= 1 THEN results
    ELSE LET n == Len(results)
             head == sort_reverse(SubSeq(results, 1, n - 1))
             last == results[n]
             k == Cardinality({i \in 1..(n - 1) : ~ RatLess(head[i].score, last.score)})
         IN  SubSeq(head, 1, k) \o <<last>> \o SubSeq(head, k + 1, n - 1)

\* _apply_pagerank_boost(results) at time t; the field pagerank it adds to a
\* boosted result is left out.
apply_pagerank_boost(results, store, t) ==
    sort_reverse([i \in 1..Len(results) |->
        IF pagerank(store, results[i].url, t).found
        THEN [results[i] EXCEPT
                 !.score = Boosted(@, pagerank(store, results[i].url, t).value)]
        ELSE results[i]])

\* _log_query: the INSERT and its commit, or the rollback and the print
_log_query(log) == query_logs' = IF log = "ok" THEN query_logs + 1 ELSE query_logs

\* search(q, page, size): the whole handler
search(q, page, size) ==
    /\ searches < MaxSearches
    /\ searches' = searches + 1
    /\ LET key == cache_key(q, page, size)
           begun == [NoRequest EXCEPT !.key = key, !.issued = now, !.prior = completed[key]]
       IN  \E cache_get \in CallOutcomes :
             IF cache_get = "raises"
             THEN /\ sreq' = [begun EXCEPT !.cache_get = "raises", !.status = 500]
                  /\ UNCHANGED <<search_cache, query_logs, completed>>
             ELSE IF cached_result(search_cache, key, now).found
             THEN \E log \in CallOutcomes :
                     /\ _log_query(log)
                     /\ sreq' = [begun EXCEPT
                            !.cache_get = "ok", !.log = log, !.status = 200, !.cached = TRUE,
                            !.results =
                               json_loads(cached_result(search_cache, key, now).value).results]
                     /\ completed' = [completed EXCEPT ![key].served = @ + 1]
                     /\ UNCHANGED search_cache
             ELSE \E es_response \in {<<"raises", <<>> >>} \cup
                                     {<<"ok", hits>> : hits \in es_search(es, size)} :
                   LET asked == [begun EXCEPT !.cache_get = "ok", !.es_search = es_response[1],
                                              !.hits = es_response[2]]
                   IN  IF es_response[1] = "raises"
                       THEN /\ sreq' = [asked EXCEPT !.status = 500]
                            /\ UNCHANGED <<search_cache, query_logs, completed>>
                       ELSE \E pagerank_get \in IF asked.hits = <<>> THEN {None}
                                                 ELSE CallOutcomes :
                              IF pagerank_get = "raises"
                              THEN /\ sreq' = [asked EXCEPT !.pagerank_get = "raises",
                                                            !.status = 500]
                                   /\ UNCHANGED <<search_cache, query_logs, completed>>
                              ELSE LET results == apply_pagerank_boost(asked.hits, pr_kv, now)
                                       scored == [asked EXCEPT !.pagerank_get = pagerank_get,
                                                               !.scored = results]
                                       response == [results |-> results, cached |-> FALSE]
                                   IN  \E cache_setex \in CallOutcomes :
                                         IF cache_setex = "raises"
                                         THEN /\ sreq' = [scored EXCEPT
                                                     !.cache_setex = "raises", !.status = 500]
                                              /\ UNCHANGED <<search_cache, query_logs,
                                                             completed>>
                                         ELSE \E log \in CallOutcomes :
                                                /\ search_cache' =
                                                      [search_cache EXCEPT ![key] =
                                                          KVSetex(settings_cache_ttl,
                                                                  json_dumps(response), now)]
                                                /\ _log_query(log)
                                                /\ completed' = [completed EXCEPT ![key] =
                                                      [set |-> TRUE, results |-> results,
                                                       at |-> now, served |-> 0]]
                                                /\ sreq' = [scored EXCEPT
                                                      !.cache_setex = "ok", !.log = log,
                                                      !.status = 200, !.cached = FALSE,
                                                      !.results = results]
    /\ UNCHANGED <<world, blvars, frvars, fnvars, rbvars, late>>

\* _apply_pagerank_boost called on a page of hits of the full-text store
CallBoost ==
    /\ \E hits \in es_search(es, MaxHits) :
          sreq' = [NoRequest EXCEPT
                      !.issued = now, !.es_search = "ok", !.hits = hits,
                      !.pagerank_get = IF hits = <<>> THEN None ELSE "ok",
                      !.scored = apply_pagerank_boost(hits, pr_kv, now)]
    /\ UNCHANGED <<world, blvars, frvars, fnvars, rbvars, late, search_cache, query_logs, searches,
                   completed>>

(***************************************************************************)
(* BloomFilter, called by several workers.  The SETBIT commands of an add  *)
(* are applied one at a time, so that the commands of two adds may         *)
(* alternate.                                                              *)
(***************************************************************************)

\* BloomFilter.add(u) by worker w: the positions are computed and the
\* pipeline is built.
bloom_add(w, u) ==
    /\ marking[w].todo = <<>>
    /\ marking' = [marking EXCEPT ![w] = [url |-> u, todo |-> setbit_pipeline(u),
                                          cleared |-> FALSE]]
    /\ UNCHANGED <<kv, links, now, local, history, ixvars, prvars, svars, frvars, fnvars,
                   rbvars, late, marked, answer>>

\* The next SETBIT of w's pipeline; after the last one add returns, and the
\* URL counts as marked when no clear came since add was called.
setbit(w) ==
    /\ marking[w].todo # <<>>
    /\ bloom' = SetBit(bloom, Head(marking[w].todo))
    /\ IF Len(marking[w].todo) = 1
       THEN /\ marking' = [marking EXCEPT ![w] = NotMarking]
            /\ marked' = IF marking[w].cleared THEN marked ELSE marked \cup {marking[w].url}
       ELSE /\ marking' = [marking EXCEPT ![w].todo = Tail(@)]
            /\ UNCHANGED marked
    /\ UNCHANGED <<frontier, robots, ratelimit, queue, links, now, local, history, ixvars,
                   prvars, svars, frvars, fnvars, rbvars, late, answer>>

\* BloomFilter.contains(u): one pipeline of GETBIT, all(results)
bloom_contains(u) ==
    /\ answer' = [url |-> u, marked |-> u \in marked, hit |-> BloomContainsOp(bloom, u),
                  midway |-> \E w \in Workers :
                                 /\ marking[w].todo # <<>>
                                 /\ Len(marking[w].todo) < BLOOM_HASH_COUNT]
    /\ UNCHANGED <<kv, links, now, local, history, ixvars, prvars, svars, frvars, fnvars,
                   rbvars, late, marking, marked>>

\* BloomFilter.clear, and DELETE /bloom of the crawler API: DEL key
bloom_clear ==
    /\ bloom' = {}
    /\ marked' = {}
    /\ marking' = [w \in Workers |->
                      IF marking[w].todo = <<>> THEN NotMarking
                      ELSE [marking[w] EXCEPT !.cleared = TRUE]]
    /\ UNCHANGED <<frontier, robots, ratelimit, queue, links, now, local, history, ixvars,
                   prvars, svars, frvars, fnvars, rbvars, late, answer>>

(***************************************************************************)
(* URLFrontier, called by one process that has the frontier to itself.     *)
(***************************************************************************)

\* URLFrontier.add(url, priority)
frontier_add(u, priority) ==
    /\ frontier' = ZAdd(frontier, u, priority)
    /\ pop_ret' = NoPop
    /\ held' = [held EXCEPT ![u] = priority]
    /\ UNCHANGED <<bloom, robots, ratelimit, queue, links, now, local, history, ixvars, prvars,
                   svars, blvars, fnvars, rbvars, rtvars, aside, fr_before>>

RECURSIVE ZAddMapping(_, _)
\* ZADD key with the mapping {url: priority for url, priority in urls}: for
\* a URL that the list holds twice the later priority stands
ZAddMapping(zset, urls) ==
    IF urls = <<>> THEN zset
    ELSE ZAddMapping(ZAdd(zset, Head(urls)[1], Head(urls)[2]), Tail(urls))

\* URLFrontier.add_many(urls), urls a list of (url, priority)
frontier_add_many(urls) ==
    /\ frontier' = IF urls # <<>> THEN ZAddMapping(frontier, urls) ELSE frontier
    /\ pop_ret' = NoPop
    /\ held' = [u \in AllUrls |->
                  LET at == {i \in 1..Len(urls) : urls[i][1] = u}
                  IN  IF at = {} THEN held[u]
                      ELSE urls[CHOOSE i \in at : \A j \in at : j <= i][2]]
    /\ UNCHANGED <<bloom, robots, ratelimit, queue, links, now, local, history, ixvars, prvars,
                   svars, blvars, fnvars, rbvars, rtvars, aside, fr_before>>

\* URLFrontier.pop_batch(count): ZRANGE 0 count-1, then one ZREM of all it
\* returned.
pop_batch(count) ==
    LET results == ZRange(frontier, 0, count - 1)
    IN  /\ fr_before' = frontier
        /\ frontier' = IF results # <<>>
                       THEN {e \in frontier : \A i \in 1..Len(results) : e.url # results[i].url}
                       ELSE frontier
        /\ pop_ret' = [done |-> TRUE, count |-> count,
                       urls |-> [i \in 1..Len(results) |-> results[i].url]]
        /\ held' = [u \in AllUrls |->
                      IF \E i \in 1..Len(pop_ret'.urls) : pop_ret'.urls[i] = u
                      THEN -1 ELSE held[u]]
        /\ UNCHANGED <<bloom, robots, ratelimit, queue, links, now, local, history, ixvars,
                       prvars, svars, blvars, fnvars, rbvars, rtvars, aside>>

(***************************************************************************)
(* The URL functions of WebCrawler, called on their own: _normalize_url,   *)
(* _calculate_priority and _extract_links.                                 *)
(***************************************************************************)

\* _normalize_url(arg.url), then _normalize_url of what that returned.
CallNormalize ==
    /\ Len(ret.canon) < 2
    /\ ret' = [ret EXCEPT !.canon =
                  Append(@, _normalize_url(IF @ = <<>> THEN arg.url ELSE @[Len(@)]))]
    /\ UNCHANGED <<world, svars, blvars, frvars, rbvars, late, arg>>

\* _calculate_priority(arg.url, arg.depth)
CallPriority ==
    /\ ret.priority = -1
    /\ ret' = [ret EXCEPT !.priority = _calculate_priority(arg.url, arg.depth)]
    /\ UNCHANGED <<world, svars, blvars, frvars, rbvars, late, arg>>

\* _extract_links on a page with the <a href> targets arg.hrefs
CallExtract ==
    /\ ~ ret.links.done
    /\ \E lst \in list_set(extracted(arg.hrefs)) :
          ret' = [ret EXCEPT !.links = [done |-> TRUE, list |-> lst]]
    /\ UNCHANGED <<world, svars, blvars, frvars, rbvars, late, arg>>

(***************************************************************************)
(* The crawler management API: POST /start and POST /stop, and the task    *)
(* that runs WebCrawler.run in the API's event loop.                       *)
(***************************************************************************)

\* "crawler_task and not crawler_task.done()"
task_running == crawler_task # 0 /\ ~ tasks[crawler_task].done

\* the requests made so far: those answered and those in flight
requests == api_response.n + Cardinality({h \in StopRequests : awaiting[h] # 0})

Respond(op, status, task) ==
    api_response' = [op |-> op, status |-> status, n |-> api_response.n + 1,
                     running |-> task_running, task |-> task]

\* A /start that does not look at crawler_task
start_crawler_Unguarded(config) ==
    /\ requests < MaxRequests
    /\ Len(tasks) < MaxTasks
    /\ tasks' = Append(tasks, [config |-> config, done |-> FALSE,
                                cancel |-> FALSE, pages_crawled |-> 0])
    /\ crawler_task' = Len(tasks) + 1
    /\ crawler_instance' = Len(tasks) + 1
    /\ Respond("start", 200, Len(tasks) + 1)
    /\ UNCHANGED <<world, svars, blvars, frvars, fnvars, rbvars, rtvars, fhvars, mqvars,
                   tfvars, runvars, awaiting>>

\* POST /start: 400 while crawler_task is a task not done; else a new
\* WebCrawler and a task that runs it.  The handler has no await.
start_crawler(config) ==
    /\ requests < MaxRequests
    /\ IF task_running
       THEN /\ Respond("start", 400, 0)
            /\ UNCHANGED <<crawler_task, crawler_instance, tasks>>
       ELSE /\ Len(tasks) < MaxTasks
            /\ tasks' = Append(tasks, [config |-> config, done |-> FALSE,
                                        cancel |-> FALSE, pages_crawled |-> 0])
            /\ crawler_task' = Len(tasks) + 1
            /\ crawler_instance' = Len(tasks) + 1
            /\ Respond("start", 200, Len(tasks) + 1)
    /\ UNCHANGED <<world, svars, blvars, frvars, fnvars, rbvars, rtvars, fhvars, mqvars,
                   tfvars, runvars, awaiting>>

\* POST /stop up to its await: 400 when crawler_task is None or done; else
\* crawler_task.cancel(), and the handler awaits the task.
stop_crawler_cancel(h) ==
    /\ requests < MaxRequests
    /\ awaiting[h] = 0
    /\ IF ~ task_running
       THEN /\ Respond("stop", 400, 0)
            /\ UNCHANGED <<tasks, awaiting>>
       ELSE /\ tasks' = [tasks EXCEPT ![crawler_task].cancel = TRUE]
            /\ awaiting' = [awaiting EXCEPT ![h] = crawler_task]
            /\ UNCHANGED api_response
    /\ UNCHANGED <<world, svars, blvars, frvars, fnvars, rbvars, rtvars, fhvars, mqvars,
                   tfvars, runvars, crawler_task, crawler_instance>>

\* POST /stop from its await on: the awaited task is done, the
\* CancelledError is passed over and the handler answers.
stop_crawler_return(h) ==
    /\ awaiting[h] # 0
    /\ tasks[awaiting[h]].done
    /\ awaiting' = [awaiting EXCEPT ![h] = 0]
    /\ Respond("stop", 200, awaiting[h])
    /\ UNCHANGED <<world, svars, blvars, frvars, fnvars, rbvars, rtvars, fhvars, mqvars,
                   tfvars, runvars, crawler_task, crawler_instance, tasks>>

\* The task of WebCrawler.run(max_pages), between two awaits: with cancel()
\* called, CancelledError is raised at the await it is suspended in and the
\* task is done; else it crawls a page, or leaves its loop (max_pages
\* reached, or the frontier found empty) and is done.
task_run(t) ==
    /\ t \in 1..Len(tasks)
    /\ ~ tasks[t].done
    /\ LET max_pages_t == tasks[t].config.max_pages
       IN  IF tasks[t].cancel
           THEN tasks' = [tasks EXCEPT ![t].done = TRUE]
           ELSE IF max_pages_t # 0 /\ tasks[t].pages_crawled >= max_pages_t
           THEN tasks' = [tasks EXCEPT ![t].done = TRUE]
           ELSE \/ /\ tasks[t].pages_crawled < MaxTaskPages
                   /\ tasks' = [tasks EXCEPT ![t].pages_crawled = @ + 1]
                \/ tasks' = [tasks EXCEPT ![t].done = TRUE]
    /\ UNCHANGED <<world, svars, blvars, frvars, fnvars, rbvars, rtvars, fhvars, mqvars,
                   tfvars, runvars, crawler_task, crawler_instance, awaiting, api_response>>

(***************************************************************************)
(* The message broker: MessageProducer.publish and the on_message callback *)
(* of MessageConsumer.consume on the queue crawled_pages.                  *)
(***************************************************************************)

\* basic_publish to crawled_pages: a JSON text, or, from another publisher,
\* a text that is no JSON.
publish(body) ==
    /\ published < MaxPublished
    /\ crawled_pages' = Append(crawled_pages, [body |-> body, deliveries |-> 0])
    /\ published' = published + 1
    /\ UNCHANGED <<world, svars, blvars, frvars, fnvars, rbvars, rtvars, fhvars, tfvars, apivars, runvars,
                   dead_letter>>

\* on_message (auto_ack off) for the message at the head of the queue:
\* json.loads, then the handler; ack when it returns True, nack with requeue
\* when it returns False or raises, nack without requeue when the body is no
\* JSON.  The queue is declared with x-dead-letter-exchange, so the broker
\* dead-letters the message that is rejected without requeue; a requeued
\* message goes back to where it was.
on_message ==
    /\ crawled_pages # <<>>
    /\ Head(crawled_pages).deliveries < MaxDeliveries
    /\ LET message == [Head(crawled_pages) EXCEPT !.deliveries = @ + 1]
       IN  IF JSONDecodeError(message.body)
           THEN /\ crawled_pages' = Tail(crawled_pages)
                /\ dead_letter' = Append(dead_letter, message)
           ELSE \E success \in {"True", "False", "raises"} :
                  /\ crawled_pages' = IF success = "True" THEN Tail(crawled_pages)
                                      ELSE <<message>> \o Tail(crawled_pages)
                  /\ UNCHANGED dead_letter
    /\ UNCHANGED <<world, svars, blvars, frvars, fnvars, rbvars, rtvars, fhvars, tfvars, apivars, runvars,
                   published>>

(***************************************************************************)
(* TFIDFCalculator.add_document and the statistics it keeps.               *)
(***************************************************************************)

\* InverseDocumentFrequency.add_document: each term of the document counts
\* once more, and so does the document.
idf_add_document(document_tokens) ==
    LET unique_terms == {document_tokens[k] : k \in 1..Len(document_tokens)}
    IN  /\ doc_frequencies' = [t \in Terms |-> IF t \in unique_terms
                                                 THEN doc_frequencies[t] + 1
                                                 ELSE doc_frequencies[t]]
        /\ total_docs' = total_docs + 1

\* TFIDFCalculator.add_document(doc_id, content)
add_document(doc_id, content) ==
    LET tokens == tokenize(content)
    IN  /\ added < MaxAdded
        /\ added' = added + 1
        /\ documents' = [documents EXCEPT ![doc_id] = [held |-> TRUE, tokens |-> tokens]]
        /\ idf_add_document(tokens)
        /\ UNCHANGED <<world, svars, blvars, frvars, fnvars, rbvars, rtvars, fhvars, mqvars, apivars, runvars>>

\* TFIDFCalculator.corpus_size
corpus_size == Cardinality({d \in DocIds : documents[d].held})

(***************************************************************************)
(* Specifications.  Each runs the same workers against the same web and    *)
(* differs in who takes part and in what is seeded.                        *)
(***************************************************************************)

\* Two workers share the KV store; the last page but one of the chain is
\* seeded through WebCrawler.seed.
Next ==
    \/ \E w \in Workers : Worker(w)
    \/ seed(<<A3>>)

Spec == Init /\ [][Next]_vars

\* One worker; every seed entry point, with lists that hold canonical,
\* non-canonical, skipped and invalid URLs.
NextSeed ==
    \/ Worker("w1")
    \/ \E urls \in {<<ROOT>>, <<FTP, PDF>>} : seed(urls)
    \/ \E urls \in {<<RAW>>, <<PUB>>} : seed_urls(urls)
    \/ \E urls \in {<<RAW>>, <<PUB>>} : trigger_crawl(urls)

SpecSeed == Init /\ [][NextSeed]_vars

\* One worker follows the chain of pages from its head.
NextDepth ==
    \/ Worker("w1")
    \/ seed(<<A0>>)

SpecDepth == Init /\ [][NextDepth]_vars

\* Two workers; two pages of host x, neither with links, are seeded.
NextAdmit ==
    \/ \E w \in Workers : Worker(w)
    \/ seed(<<A4, PRIV>>)

SpecAdmit == Init /\ [][NextAdmit]_vars

\* Two workers are started, each with max_pages or without, once the head
\* of a chain of two pages is seeded; nothing is seeded after that.  Each
\* worker's run() keeps being scheduled: every step of Worker(w), and no
\* other step, moves pc[w], and a worker whose loop has not ended always
\* has a step to take, so that the worker is scheduled when WorkerMoves(w)
\* is.
InitLimit ==
    /\ InitBut
    /\ EmptyStores
    /\ links = {}
    /\ pages = {}
    /\ arg = NoArg
    /\ max_pages \in [Workers -> {0, 1}]

WorkerPcs == {"run", "zrem", "sleep5", "contains", "add", "rate_get", "rate_sleep",
              "rate_set", "robots_get", "robots_fetch", "http_get", "publish",
              "save_links", "enqueue", "done"}

WorkerMoves(w) ==
    /\ seeded # {} /\ pc[w] # "done"
    /\ \E p \in WorkerPcs \ {pc[w]} : pc' = [pc EXCEPT ![w] = p]

NextLimit ==
    \/ seeded = {} /\ seed(<<A3>>)
    \/ seeded # {} /\ \E w \in Workers : Worker(w)

SpecLimit ==
    /\ InitLimit /\ [][NextLimit]_vars
    /\ WF_seeded(seeded = {} /\ seed(<<A3>>))
    /\ \A w \in Workers : WF_pc(WorkerMoves(w))

\* One worker, run from the crawler API, which may be stopped.
NextStop ==
    \/ Worker("w1")
    \/ seed(<<ROOT>>)
    \/ stop_crawler("w1")

SpecStop == Init /\ [][NextStop]_vars

\* Two indexer processes on one queue, i1 in batch mode and i2 taking one
\* entry at a time, and the search API's direct indexing.
NextIndex ==
    \/ \E data \in {CrawledPage(PUB, now), CrawledPage(RAW, now), NotJson} : rpush(data)
    \/ Tick
    \/ run("i1", TRUE) \/ run("i2", FALSE)
    \/ \E i \in Indexers : process_one(i) \/ index_document(i) \/ save_metadata(i)
    \/ process_batch("i1") \/ index_bulk("i1")
    \/ fetch_and_index_url(PUB)

SpecIndex == Init /\ [][NextIndex]_vars

\* One indexer process, taking one entry at a time.
NextIndexOne ==
    \/ \E data \in {CrawledPage(PUB, now), CrawledPage(RAW, now), NotJson} : rpush(data)
    \/ Tick
    \/ run("i1", FALSE)
    \/ process_one("i1") \/ index_document("i1") \/ save_metadata("i1")
    \/ fetch_and_index_url(PUB)

SpecIndexOne == Init /\ [][NextIndexOne]_vars

\* The steps of one indexer process
Indexer(i, batch_mode) ==
    \/ run(i, batch_mode)
    \/ process_one(i) \/ index_document(i) \/ save_metadata(i)
    \/ process_batch(i) \/ index_bulk(i)

\* Records arrive on the queue while the batch indexer i1 and the
\* one-at-a-time indexer i2 are started; at least one of the two processes
\* keeps running (the loop of run has no exit but KeyboardInterrupt).
NextDrain ==
    \/ \E data \in {CrawledPage(PUB, 0), NotJson} : rpush(data)
    \/ Indexer("i1", TRUE)
    \/ Indexer("i2", FALSE)

SpecDrain ==
    /\ Init /\ [][NextDrain]_vars
    /\ WF_vars(Indexer("i1", TRUE)) \/ WF_vars(Indexer("i2", FALSE))

\* The crawler API is sent /start and /stop requests, two /stop requests at
\* most at a time, while the tasks it made run.
NextApi ==
    \/ \E config \in Configs : start_crawler(config)
    \/ \E h \in StopRequests : stop_crawler_cancel(h) \/ stop_crawler_return(h)
    \/ \E t \in 1..MaxTasks : task_run(t)

SpecApi == Init /\ [][NextApi]_vars

\* One consumer of crawled_pages, and its publishers.
NextQueue ==
    \/ \E body \in {CrawledPage(PUB, 0), CrawledPage(ROOT, 0), NotJson} : publish(body)
    \/ on_message

SpecQueue == Init /\ [][NextQueue]_vars

\* Documents are added to one calculator.
NextTfidf == \E doc_id \in DocIds, content \in Contents : add_document(doc_id, content)

SpecTfidf == Init /\ [][NextTfidf]_vars

\* A metadata row as save_metadata writes it
PageRow(u) == [id |-> url_to_hash(u), url |-> u, crawled_at |-> 0, indexed_at |-> 0,
               status |-> "indexed"]

\* The PageRank job finds some pages and some links in the metadata store.
InitRank ==
    /\ InitBut
    /\ NoLimit
    /\ EmptyStores
    /\ pages \in {{PageRow(u) : u \in S} : S \in SUBSET RankUrls}
    /\ links \in SUBSET RankLinks
    /\ arg = NoArg

\* PageRank batches, one after the other, and a search that looks scores up.
NextRank ==
    \/ run_pagerank_job \/ load_graph \/ power_iteration \/ compute_returns
    \/ store_scores \/ store_scores_meta \/ store_to_postgres
    \/ _apply_pagerank_boost

SpecRank == InitRank /\ [][NextRank]_vars

\* The URL functions, each called on a URL string, a depth and a list of
\* hrefs taken from the inputs.
InitUrl ==
    /\ InitBut
    /\ NoLimit
    /\ EmptyStores
    /\ links = {}
    /\ pages = {}
    /\ arg \in [url : UrlInputs, depth : 0..MaxDepthArg,
                 hrefs : {<<>>} \cup {<<h>> : h \in HrefInputs}
                         \cup {<<h1, h2>> : h1 \in HrefInputs, h2 \in HrefInputs}]

NextUrl == CallNormalize \/ CallPriority \/ CallExtract

SpecUrl == InitUrl /\ [][NextUrl]_vars

\* A PageRank score a batch has stored
Stored(n, d) == KVSetex(pagerank_ttl, [num |-> n, den |-> d, gen |-> 1], 0)

\* The full-text store holds two documents; the KV store holds no PageRank
\* score, or one score.
InitSearch ==
    /\ InitBut
    /\ NoLimit
    /\ links = {}
    /\ pages = {}
    /\ arg = NoArg
    /\ es = {_create_document(CrawledPage(u, 0), 0) : u \in {ROOT, PUB}}
    /\ pr_kv \in {NoPagerank, [NoPagerank EXCEPT ![PUB] = Stored(1, 20)]}

\* Search requests, one after the other, as time passes.
NextSearch ==
    \/ \E a \in SearchArgs : search(a[1], a[2], a[3])
    \/ Tick

SpecSearch == InitSearch /\ [][NextSearch]_vars

\* The full-text store holds three documents; for each, the KV store holds no
\* PageRank score, or a score of 0, or one of 0.05.
InitScore ==
    /\ InitBut
    /\ NoLimit
    /\ links = {}
    /\ pages = {}
    /\ arg = NoArg
    /\ es = {_create_document(CrawledPage(u, 0), 0) : u \in RankUrls}
    /\ pr_kv \in [RankUrls -> {NoPagerank[ROOT], Stored(0, 1), Stored(1, 20)}]

\* The scorer, called on a page of hits.
NextScore == CallBoost

SpecScore == InitScore /\ [][NextScore]_vars

\* Two workers; a page that redirects to another host and a page that does
\* not are seeded, once.
NextRedirect ==
    \/ \E w \in Workers : Worker(w)
    \/ seeded = {} /\ seed(<<MOVED, A4>>)

SpecRedirect == Init /\ [][NextRedirect]_vars

\* Two workers; three pages of host y, whose robots.txt is not always served,
\* are seeded, once.
NextRobots ==
    \/ \E w \in Workers : Worker(w)
    \/ seeded = {} /\ seed(<<YA, YPRIV, YB>>)

SpecRobots == Init /\ [][NextRobots]_vars

\* Two workers mark URLs in the bloom filter and test it; the filter may be
\* cleared.
NextBloom ==
    \/ \E w \in Workers : \E u \in {ROOT, PUB, A0} : bloom_add(w, u)
    \/ \E w \in Workers : setbit(w)
    \/ \E u \in {ROOT, PUB, A0} : bloom_contains(u)
    \/ bloom_clear

SpecBloom == Init /\ [][NextBloom]_vars

\* One process adds entries to the frontier and takes batches from it.
NextFrontier ==
    \/ \E u \in {ROOT, PUB, A0, A1} : \E priority \in {0, 21} : frontier_add(u, priority)
    \/ \E urls \in {<<>>, <<<<ROOT, 0>>, <<ROOT, 21>>>>, <<<<PUB, 21>>, <<A0, 0>>>>} :
          frontier_add_many(urls)
    \/ \E count \in 0..MaxCount : pop_batch(count)

SpecFrontier == Init /\ [][NextFrontier]_vars

(***************************************************************************)
(* Claims.                                                                 *)
(***************************************************************************)

\* C1: with several workers sharing the KV store and no clear of the bloom
\* filter, at most one execution of crawl_url(u) gets past the bloom check
\* and starts a fetch, for every URL u.
C1_FetchedAtMostOnce == \A u \in AllUrls : passed[u] <= 1

\* C2: frontier removal is atomic: every pop() that returns a URL is the
\* one whose ZREM removed it, so no entry is returned to two callers.
C2_PopRemovedWhatItReturns ==
    \A w \in Workers : pc[w] = "contains" => zrem_n[w] = 1

\* C3: every member of the frontier is in canonical form, whichever entry
\* point inserted it.
C3_FrontierCanonical == \A e \in frontier : _normalize_url(e.url) = e.url

\* C4 (as claimed): a popped URL is fetched iff its bloom test is false or it
\* is a seed.
C4_AdmitIffUnseenOrSeed ==
    \A w \in Workers :
        bloom_test[w].done =>
            (bloom_test[w].fetch <=> (~ bloom_test[w].hit \/ url[w] \in seeded))

\* C4 (amended): a popped URL is fetched iff its bloom test is false, seed or
\* not; a seed the filter reports as seen is not fetched.
C4_AdmitIffUnseen ==
    \A w \in Workers :
        bloom_test[w].done => (bloom_test[w].fetch <=> ~ bloom_test[w].hit)

\* C4 witness: a seed was popped, the filter reported it seen, and crawl_url
\* returned without fetching it.
C4_SeedSeenNotFetched ==
    \E w \in Workers :
        /\ bloom_test[w].done /\ bloom_test[w].hit /\ ~ bloom_test[w].fetch
        /\ url[w] \in seeded /\ passed[url[w]] = 1

\* C5: no URL whose link distance from a seed exceeds crawler_max_depth is
\* ever on the frontier.
C5_DepthBounded == \A e \in frontier : truedepth[e.url] <= crawler_max_depth

\* C6: on host x, whose robots.txt disallows only /private/, every robots
\* decision for a URL under /private/ is deny and every other one is allow,
\* cached or not.
C6_RobotsDecisionPerUrl ==
    \A w \in Workers :
        admit[w] # None =>
            (admit[w] = "deny" <=> StartsWith(urlparse(url[w]).path, <<"/", "private", "/">>))

\* C7: two passes of the rate-limit gate for the same host, by one worker or
\* by two, return at least crawler_politeness_delay seconds apart.
C7_PolitenessGap ==
    \A d \in Netlocs : gate[d].gap = -1 \/ gate[d].gap >= crawler_politeness_delay

\* C8: no GET is issued for a URL whose scheme is not http(s), whose path
\* ends in a skipped extension or that carries a fragment.
C8_NoGetForSkippedUrl == \A u \in gets : ~ _should_skip_url(u)

\* C9: a response whose status is not 2xx produces no fetched-page record
\* on the indexing queue.
C9_OnlySuccessPublished ==
    \A i \in 1..Len(queue) : queue[i].http_status \in 200..299

\* The fetched-page records a worker has published.
RecordsOf(w, q) == SelectSeq(q, LAMBDA r : r.worker_id = w)

C11_DocumentHasIndexedRow ==
    (\A i \in Indexers : ipc[i] = "run") =>
        \A d \in es : \E r \in pages : r.id = d._id /\ r.status = "indexed"

\* C12: a pop, by process_one or by process_batch, adds to the indexer's
\* error counter one for each popped entry that fails to decode, and the
\* other popped entries become documents.
C12_DecodeErrorCounted ==
    [][\A i \in Indexers :
          ipc[i] \in {"process_one", "process_batch"} /\ ipc'[i] # ipc[i] =>
              LET popped == SubSeq(queue, 1, Len(queue) - Len(queue'))
                  bad == Len(SelectSeq(popped, JSONDecodeError))
              IN  /\ indexer_errors'[i] = indexer_errors[i] + bad
                  /\ ipc'[i] # "run" => Len(pending'[i]) = Len(popped) - bad]_vars

\* C13: no step lowers the indexed_at of a metadata row.
C13_IndexedAtNeverDecreases ==
    [][\A r \in pages : \A r2 \in pages' :
          r2.id = r.id => r2.indexed_at >= r.indexed_at]_vars

\* The documents of the store with this id, and the rows of pages with it.
DocsOf(store, id) == {d \in store : d._id = id}
RowsOf(rows, id) == {r \in rows : r.id = id}

\* C14: when a record is processed whose id already has a document and a
\* metadata row, the store holds as many documents and the table as many
\* rows after index_document and after save_metadata as before; the row
\* keeps its crawled_at, its indexed_at becomes that of the new document,
\* which is no older, and its status stays 'indexed'.
C14_ReindexIdempotent ==
    [][\A i \in Indexers :
          (/\ ipc[i] \in {"index_document", "save_metadata"}
           /\ pending[i] # <<>>
           /\ DocsOf(es, pending[i][1]._id) # {}
           /\ RowsOf(pages, pending[i][1]._id) # {}
           /\ (ipc'[i] # ipc[i] \/ pending'[i] # pending[i])) =>
              LET doc == pending[i][1]
              IN  /\ Cardinality(es') = Cardinality(es)
                  /\ Cardinality(pages') = Cardinality(pages)
                  /\ \A r \in RowsOf(pages, doc._id) : \A r2 \in RowsOf(pages', doc._id) :
                        /\ r2.crawled_at = r.crawled_at
                        /\ r2.status = "indexed"
                        /\ r2.indexed_at >= r.indexed_at
                        /\ pages' # pages => r2.indexed_at = doc.indexed_at]_vars

\* C14 witness: indexer i1 has indexed two records of one URL, the second
\* crawled and indexed later than the first: there is one document and one
\* row, which has the first record's crawled_at and the second's indexed_at.
C14_Reindexed ==
    /\ ipc["i1"] = "run" /\ pages_indexed["i1"] = 2
    /\ Cardinality(es) = 1 /\ Cardinality(pages) = 1
    /\ \E r \in pages : \E d \in es :
         /\ d._id = r.id
         /\ r.crawled_at = 0 /\ d.crawled_at > 0 /\ r.indexed_at = d.indexed_at

\* C15: the full-text store never holds two documents whose URLs have the
\* same canonical form.
C15_OneDocumentPerCanonicalUrl ==
    \A d1, d2 \in es : _normalize_url(d1.url) = _normalize_url(d2.url) => d1 = d2

\* C16: the PageRank scores one reader looks up all come from one batch.
C16_OneGenerationSeen ==
    \A j, k \in 1..Len(seen) : seen[j] # 0 /\ seen[k] # 0 => seen[j] = seen[k]

\* C17: a batch whose load phase found no pages goes from load_graph to its
\* end without entering the store phase, and no write was issued: the table
\* pagerank_scores, the pagerank:<hash> keys and pagerank:meta are as they were.
C17_NoPagesNoWrites ==
    (gen > 0 /\ rpc # "load_graph" /\ url_to_idx = {}) =>
        /\ rpc = "done"
        /\ writes = 0
        /\ pagerank_scores = {}
        /\ ~ pr_meta.set
        /\ \A u \in RankUrls : pr_kv[u].expires = 0

\* C17 witness: two batches have run to their end over an empty pages table.
C17_TwoEmptyBatches ==
    gen = MaxJobs /\ rpc = "done" /\ pages = {} /\ url_to_idx = {} /\ ~ scores.set

\* C18: the loop of compute makes a pass only when fewer than
\* pagerank_iterations passes were made and the last pass did not end below
\* the threshold, and compute returns only when one of the two holds.
C18_IterationStops ==
    [][/\ iteration' <= pagerank_iterations
       /\ iteration' > iteration => ~ converged /\ iteration < pagerank_iterations
       /\ (scores'.set /\ ~ scores.set) =>
              converged \/ iteration = pagerank_iterations]_vars

\* C18 witness: compute has returned after its second pass, which ended below
\* the threshold, with passes to spare.
C18_StoppedAtConvergence ==
    /\ scores.set /\ converged
    /\ iteration = 2 /\ iteration < pagerank_iterations

C24_PopTakesTheMinimum ==
    [][\A w \in Workers :
          /\ (pc[w] = "zrem" /\ pc'[w] = "contains") =>
                \E e \in frontier :
                    /\ e.url = url[w]
                    /\ \A f \in frontier : e.score <= f.score
                    /\ frontier' = frontier \ {e}
          /\ (pc[w] = "run" /\ pc'[w] = "sleep5") =>
                frontier = {} /\ frontier' = frontier /\ url'[w] = url[w]]_vars

\* C27: _normalize_url applied to what _normalize_url returned gives the
\* same URL again.
C27_NormalizeIdempotent ==
    Len(ret.canon) = 2 => ret.canon[2] = ret.canon[1]

\* The names between the slashes of a path: /a/b has two, / and "" have none.
NamedSegments(path) ==
    Cardinality({i \in 1..Len(path) : path[i] # "/" /\ (i = 1 \/ path[i - 1] = "/")})

\* 10*d + 0.5*pathSegments - 5*[path is "" or "/"] - 1*[scheme is https],
\* not below 0, in units of 0.5
PriorityFormula(u, d, pathSegments) ==
    LET p == 20 * d + pathSegments
             - (IF urlparse(u).path \in {<<>>, <<"/">>} THEN 10 ELSE 0)
             - (IF urlparse(u).scheme = "https" THEN 2 ELSE 0)
    IN  IF p > 0 THEN p ELSE 0

C30_LinksCanonicalOnce ==
    ret.links.done =>
        LET lst == ret.links.list
        IN  /\ \A i \in 1..Len(lst) :
                  /\ is_valid_url(lst[i])
                  /\ _normalize_url(lst[i]) = lst[i]
                  /\ ~ _should_skip_url(lst[i])
                  /\ lst[i].fragment = ""
            /\ \A i, j \in 1..Len(lst) : lst[i] = lst[j] => i = j

\* C25: pop_batch(n) returns the URLs that n calls of pop, one after the
\* other, return, in their order, and leaves the frontier they leave.
C25_PopBatchIsNPops ==
    pop_ret.done =>
        /\ pop_ret.urls = pops(fr_before, pop_ret.count).urls
        /\ frontier = pops(fr_before, pop_ret.count).zset

\* C26: every URL whose mark has completed since the last clear tests as
\* seen, whatever marks ran or are running beside it, and a test of such a
\* URL returned true.
C26_NoFalseNegative ==
    /\ \A u \in marked : BloomContainsOp(bloom, u)
    /\ answer.marked => answer.hit

\* C26 witness: two URLs are marked, and a test of a marked URL was answered
\* true while the pipeline of another mark was part-way through.
C26_SeenBesideHalfAMark ==
    /\ Cardinality(marked) = 2
    /\ answer.marked /\ answer.hit /\ answer.midway

\* C28: a robots.txt fetch that fails or is answered with a status other
\* than 200 gives allow and caches "1" for the host for 3600 seconds; and a
\* can_fetch call that begins while the value cached by such a fetch has not
\* expired fetches nothing and returns allow.
C28_FailedFetchAllowsForTtl ==
    [][/\ \A d \in Netlocs :
             robots_failed'[d] # robots_failed[d] =>
                 /\ robots'[d] = [value |-> "1", expires |-> now + 3600]
                 /\ \E w \in Workers :
                        /\ pc[w] = "robots_fetch" /\ get_domain(url[w]) = d
                        /\ admit'[w] = "allow" /\ pc'[w] = "http_get"
       /\ \A w \in Workers :
             admit_after_fail'[w] =>
                 /\ pc'[w] # "robots_fetch"
                 /\ admit'[w] # None => admit'[w] = "allow"]_vars

\* C21: a search request whose full-text query succeeded returns its results
\* with status 200, whatever the cache read, the cache write or the query-log
\* insert did.
C21_FailuresSwallowed ==
    sreq.es_search = "ok" => sreq.status = 200 /\ sreq.results = sreq.scored

\* C22: when the cache read of a request succeeds and an uncached search for
\* its key has returned before: if the request comes before that search's
\* cache entry is settings.cache_ttl old, it is answered with cached = true
\* and that search's results without a call to the full-text store; if it
\* comes later, the full-text store is called and a response, if one is
\* sent, has cached = false.
C22_CachedUntilTtl ==
    sreq.cache_get = "ok" /\ sreq.prior.set =>
        IF sreq.issued < sreq.prior.at + settings_cache_ttl
        THEN /\ sreq.status = 200
             /\ sreq.cached
             /\ sreq.results = sreq.prior.results
             /\ sreq.es_search = None
        ELSE /\ sreq.es_search # None
             /\ sreq.status = 200 => ~ sreq.cached

\* C22 witness: an uncached search returned, a request was then served from
\* its cache entry, and after the TTL the same search was answered by the
\* full-text store with other results and cached = false.
C22_ServedThenExpired ==
    /\ sreq.prior.set
    /\ sreq.prior.served > 0
    /\ sreq.issued >= sreq.prior.at + settings_cache_ttl
    /\ sreq.status = 200
    /\ ~ sreq.cached
    /\ sreq.results # sreq.prior.results

C31_DenyLeavesGateAlone ==
    \A w \in Workers : admit[w] = "deny" => ~ gated[w].slept /\ ~ gated[w].wrote

\* C40: in every record on queue:indexing the domain field is the host of
\* the record's url field.
C40_DomainOfRecordUrl ==
    \A i \in 1..Len(queue) : queue[i].domain = get_domain(queue[i].url)

\* The authority with the host lowercased and without the port when the port
\* is the default one of the scheme
AuthorityAsClaimed(u) ==
    LET parsed == urlparse(u)
        port == CASE parsed.scheme = "http" -> <<":", "8", "0">>
                  [] parsed.scheme = "https" -> <<":", "4", "4", "3">>
                  [] OTHER -> <<>>
        n == Len(parsed.netloc) - Len(port)
    IN  LowerStr(IF port # <<>> /\ EndsWith(parsed.netloc, port)
                 THEN SubSeq(parsed.netloc, 1, n) ELSE parsed.netloc)

\* C33: the URL _normalize_url returns has the authority of its argument with
\* the host lowercased and a port that is exactly the scheme's default
\* removed, any other port kept, and the path of its argument, without its
\* trailing slashes when it is not the root path.
C33_OnlyDefaultPortRemoved ==
    Len(ret.canon) >= 1 =>
        /\ ret.canon[1].netloc = AuthorityAsClaimed(arg.url)
        /\ ret.canon[1].path = IF arg.url.path = <<"/">> THEN <<"/">>
                               ELSE RStripSlash(arg.url.path)

\* URLFrontier.size(): ZCARD
size(zset) == Cardinality(zset)

\* C37: the frontier holds one entry for each URL that was pushed and not
\* popped since and no other entry, the entry has the priority of the URL's
\* latest push, and size() is the number of those URLs.
C37_OneEntryPerUrl ==
    /\ \A e \in frontier : held[e.url] = e.score
    /\ \A u \in AllUrls : held[u] # -1 => \E e \in frontier : e.url = u
    /\ size(frontier) = Cardinality({u \in AllUrls : held[u] # -1})

\* C37 witness: a URL that was in the frontier at priority 0 was pushed again
\* at priority 10.5; the frontier holds it once, at 10.5, beside another URL.
C37_PushedAgain ==
    /\ held[ROOT] = 21
    /\ \E e \in fr_before : e.url = ROOT /\ e.score = 0
    /\ [url |-> ROOT, score |-> 21] \in frontier
    /\ size(frontier) = 2

\* C38: when no indexer is in the middle of a record or a batch, every row
\* of pages with status 'indexed' has its document in the full-text store.
C38_IndexedRowHasDocument ==
    (\A i \in Indexers : ipc[i] = "run") =>
        \A r \in pages : r.status = "indexed" => \E d \in es : d._id = r.id

C34_RedeliveryBounded ==
    /\ \A k \in 1..Len(crawled_pages) : crawled_pages[k].deliveries <= 1 + max_retries
    /\ \A k \in 1..Len(dead_letter) :
          JSONDecodeError(dead_letter[k].body) => dead_letter[k].deliveries = 1

\* C35: total_docs is the number of documents held, and of every term the
\* document frequency is the number of documents held that contain it.
C35_StatisticsOfHeldDocuments ==
    /\ total_docs = corpus_size
    /\ \A t \in Terms :
          doc_frequencies[t] =
              Cardinality({d \in DocIds : /\ documents[d].held
                                          /\ \E k \in 1..Len(documents[d].tokens) :
                                                documents[d].tokens[k] = t})

\* What is claimed of /start and /stop whatever comes after /stop: at most
\* one task of the crawler API is not done; /start answers 400 exactly when
\* it finds such a task, and then leaves the task, the crawler and its
\* counters as they are; /stop answers 400 only when it finds none; when
\* /stop has answered 200 the task it cancelled is done.
StartStopSafe ==
    /\ [](Cardinality({t \in 1..Len(tasks) : ~ tasks[t].done}) <= 1)
    /\ [](api_response.op = "start" =>
             (api_response.status = 400 <=> api_response.running))
    /\ [](api_response.op = "stop" /\ api_response.status = 400 => ~ api_response.running)
    /\ [](api_response.op = "stop" /\ api_response.status = 200 =>
             tasks[api_response.task].done)
    /\ [][api_response'.op = "start" /\ api_response'.status = 400
             /\ api_response'.n # api_response.n =>
             tasks' = tasks /\ crawler_task' = crawler_task
                            /\ crawler_instance' = crawler_instance]_vars

\* C36 as stated: StartStopSafe, and when the last answer is a 200 of /stop
\* the /start that answers next answers 200.
C36_StartAfterStopSucceeds ==
    /\ StartStopSafe
    /\ [][api_response.op = "stop" /\ api_response.status = 200
             /\ api_response'.op = "start" /\ api_response'.n # api_response.n =>
             api_response'.status = 200]_vars

\* C36 amended: StartStopSafe, and when the last answer is a 200 of /stop
\* that found no task running as it answered, the /start that answers next
\* answers 200.
C36_OneCrawlerTask ==
    /\ StartStopSafe
    /\ [][api_response.op = "stop" /\ api_response.status = 200
             /\ ~ api_response.running
             /\ api_response'.op = "start" /\ api_response'.n # api_response.n =>
             api_response'.status = 200]_vars

\* C36 witness: a first crawler was started and crawled a page, /stop
\* cancelled it and answered with no task running, and the /start that
\* followed has answered 200: the second task runs, the first is done.
C36_StartedAfterStop ==
    /\ Len(tasks) = 2
    /\ tasks[1].cancel /\ tasks[1].done /\ tasks[1].pages_crawled = 1
    /\ ~ tasks[2].done
    /\ crawler_task = 2
    /\ api_response = [op |-> "start", status |-> 200, n |-> 3, running |-> FALSE,
                       task |-> 2]

\* What is claimed of the run loops besides the frontier: every worker's
\* loop ends and stays ended, and a worker with max_pages set never has
\* pages_crawled above it.
LoopsEnd ==
    /\ <>[](\A w \in Workers : pc[w] = "done")
    /\ [](\A w \in Workers : max_pages[w] # 0 => pages_crawled[w] <= max_pages[w])

\* C39 as stated: LoopsEnd, and when every worker's loop has ended the
\* frontier is empty.
C39_FrontierEmptyAtEnd ==
    /\ LoopsEnd
    /\ []((\A w \in Workers : pc[w] = "done") => frontier = {})

\* C39 amended: LoopsEnd, and when the last worker's loop ends, the frontier
\* is empty or that worker leaves the loop through its max_pages test.
C39_CrawlTerminates ==
    /\ LoopsEnd
    /\ [][(\A w \in Workers : pc'[w] = "done") /\ (\E w \in Workers : pc[w] # "done") =>
             \/ frontier' = {}
             \/ \E w \in Workers : pc[w] = "run" /\ pc'[w] = "done"]_pc

\* C39 witness: both workers ran without max_pages; both pages of the chain
\* were crawled, every loop has ended and the frontier is empty.
C39_AllCrawledAndEnded ==
    /\ max_pages = [w \in Workers |-> 0]
    /\ \A w \in Workers : pc[w] = "done"
    /\ pages_crawled["w1"] + pages_crawled["w2"] = 2
    /\ frontier = {}
====
